---- MODULE Spec2Model ----
(***************************************************************************)
(* The ESI processor of esi/src: the directive parser (parse.rs) and the   *)
(* fragment-assembly scheduler (lib.rs).                                   *)
(*                                                                         *)
(* Processor::process_document reads the document one XML reader event at  *)
(* a time through parse_tags/do_parse, whose callback queues elements and  *)
(* dispatches fragment requests, and then drains the element queue with    *)
(* poll_elements/poll_tasks.  The runtime is the environment: the          *)
(* dispatcher answers each call with a handle, with None or with an error, *)
(* and every handle is completed by its backend at an arbitrary moment, so *)
(* that PendingRequest::wait() is enabled only once the answer is there.   *)
(***************************************************************************)
EXTENDS Integers, Sequences, FiniteSets, TLC

(***************************************************************************)
(* Bounds of the model                                                     *)
(***************************************************************************)
\* items (passthrough events, includes, tries) at the root of the document
MaxEvents == 3
\* events in one arm of a try
MaxArm == 2
\* include tags in the whole document
MaxIncludes == 2
\* passthrough events in the whole document
MaxXml == 2
\* try blocks in the whole document
MaxTries == 1
\* abnormal answers of the environment and malformed URLs in one run
MaxFaults == 1
\* reader events of one document given to the parser alone
MaxTokens == 5
\* occurrences of each of the tags try, attempt and except, open or close,
\* and try blocks of a balanced document
MaxNest == 2
\* reader events of one balanced document given to the parser alone
MaxNestedTokens == 13

\* status codes the backends answer with
Statuses == {200, 404, 500}

(***************************************************************************)
(* Option and Result                                                       *)
(***************************************************************************)
None == [some |-> FALSE]
Some(x) == [some |-> TRUE, val |-> x]
Ok(x) == [ok |-> TRUE, val |-> x]
Err(e) == [ok |-> FALSE, err |-> e]

\* a URL names the tag (by its position in the document) and the attribute
\* it is the value of
Url(p, attr) == [pos |-> p, attr |-> attr]
NoUrl == Url(0, "-")

\* ExecutionError (error.rs)
XMLError(p) == [kind |-> "XMLError", url |-> Url(p, "-"), status |-> 0]
MissingRequiredParameter(p) == [kind |-> "MissingRequiredParameter", url |-> Url(p, "src"), status |-> 0]
UnexpectedClosingTag(p) == [kind |-> "UnexpectedClosingTag", url |-> Url(p, "-"), status |-> 0]
UnexpectedOpeningTag(p) == [kind |-> "UnexpectedOpeningTag", url |-> Url(p, "-"), status |-> 0]
InvalidRequestUrl(u) == [kind |-> "InvalidRequestUrl", url |-> u, status |-> 0]
RequestError(u) == [kind |-> "RequestError", url |-> u, status |-> 0]
UnexpectedStatus(u, s) == [kind |-> "UnexpectedStatus", url |-> u, status |-> s]

(***************************************************************************)
(* The events of the XML reader.  A tag name is a namespace prefix, a      *)
(* local name and what follows the local name (nothing, for an exact       *)
(* name).  pos is the position of the event in the document.  The value    *)
(* of a src or alt attribute either parses as a URL or does not.           *)
(***************************************************************************)
namespace == "esi"

Name(ns, local) == [ns |-> ns, local |-> local, more |-> ""]
NoName == Name("-", "-")
\* e.name() == QName(tag)
NameIs(n, local) == n.ns = namespace /\ n.local = local /\ n.more = ""
\* e.name().into_inner().starts_with(tag)
NameStartsWith(n, local) == n.ns = namespace /\ n.local = local

NoAttrs == [src |-> None, alt |-> None, onerror |-> None]
Token(kind, name, attrs, p) == [kind |-> kind, name |-> name, attrs |-> attrs, pos |-> p]
Text(p) == Token("Text", NoName, NoAttrs, p)
Eof(p) == Token("Eof", NoName, NoAttrs, p)
Start(local, p) == Token("Start", Name(namespace, local), NoAttrs, p)
End(local, p) == Token("End", Name(namespace, local), NoAttrs, p)
AttrValue(p, attr, valid) == [url |-> Url(p, attr), valid |-> valid]

\* the self-closing include tags: src parses or not, alt is absent, parses
\* or does not, onerror is absent or continue
IncludeTags(p) ==
    { Token("Empty", Name(namespace, "include"),
            [src |-> Some(AttrValue(p, "src", s)),
             alt |-> IF a = "none" THEN None ELSE Some(AttrValue(p, "alt", a = "ok")),
             onerror |-> IF c THEN Some("continue") ELSE None], p) :
        s \in BOOLEAN, a \in {"none", "ok", "bad"}, c \in BOOLEAN }
TagFaults(tok) ==
    (IF tok.attrs.src.some /\ ~tok.attrs.src.val.valid THEN 1 ELSE 0)
    + (IF tok.attrs.alt.some /\ ~tok.attrs.alt.val.valid THEN 1 ELSE 0)

\* the bytes Writer::write_event produces for a passthrough event, and the
\* body of the response to a request
XmlBytes(p) == <<[k |-> "xml", pos |-> p, attr |-> "-"]>>
BodyOf(u) == <<[k |-> "body", pos |-> u.pos, attr |-> u.attr]>>

(***************************************************************************)
(* Events of the parser (parse.rs)                                         *)
(***************************************************************************)
XML(p) == [type |-> "XML", pos |-> p]
IncludeEvent(src, alt, coe, p) ==
    [type |-> "Include", src |-> src, alt |-> alt, continue_on_error |-> coe, pos |-> p]
TryEvent(attempt_events, except_events, p) ==
    [type |-> "Try", attempt_events |-> attempt_events,
     except_events |-> except_events, pos |-> p]

\* parse_include: src is required, alt is optional, onerror counts only when
\* it is continue
parse_include_src_optional(tok) ==
    Ok(IncludeEvent(IF tok.attrs.src.some THEN tok.attrs.src.val
                    ELSE AttrValue(tok.pos, "src", TRUE),
                    tok.attrs.alt,
                    tok.attrs.onerror.some /\ tok.attrs.onerror.val = "continue",
                    tok.pos))
parse_include_any_onerror(tok) ==
    IF ~tok.attrs.src.some THEN Err(MissingRequiredParameter(tok.pos))
    ELSE Ok(IncludeEvent(tok.attrs.src.val, tok.attrs.alt, tok.attrs.onerror.some,
                         tok.pos))
parse_include(tok) ==
    IF ~tok.attrs.src.some THEN Err(MissingRequiredParameter(tok.pos))
    ELSE Ok(IncludeEvent(tok.attrs.src.val, tok.attrs.alt,
                         tok.attrs.onerror.some /\ tok.attrs.onerror.val = "continue",
                         tok.pos))

(***************************************************************************)
(* Elements, fragments and tasks (document.rs)                             *)
(***************************************************************************)
Pending == [state |-> "Pending", request |-> NoUrl, status |-> 0]
Succeeded == [state |-> "Succeeded", request |-> NoUrl, status |-> 0]
Failed(req, res) == [state |-> "Failed", request |-> req, status |-> res]

Task == [queue |-> <<>>, output |-> <<>>, status |-> Pending]

Fragment(request, alt, coe, h) ==
    [request |-> request, alt |-> alt, continue_on_error |-> coe,
     pending_request |-> h]
Raw(bytes) == [type |-> "Raw", bytes |-> bytes]
Include(fragment) == [type |-> "Include", fragment |-> fragment]
Try(attempt_task, except_task, p) ==
    [type |-> "Try", attempt_task |-> attempt_task,
     except_task |-> except_task, pos |-> p]

(***************************************************************************)
(* The runtime.  dispatched is the log of the calls of the dispatcher,     *)
(* with the answer it gave; a handle is the index of its call.  responses  *)
(* has one entry per call: no handle, in flight, arrived, and from the     *)
(* wait() that reads it on the answer itself: the answer of a backend is   *)
(* observed by nothing before that wait().                                 *)
(***************************************************************************)
DispatchAnswers == {"some", "none", "err"}
NoHandle == [kind |-> "nohandle", status |-> 0]
InFlight == [kind |-> "inflight", status |-> 0]
Arrived == [kind |-> "arrived", status |-> 0]
HttpResponse(s) == [kind |-> "http", status |-> s]
SendError == [kind |-> "senderr", status |-> 0]

is_success(s) == s >= 200 /\ s < 300

Call(req, ans) == [request |-> req, answer |-> ans]
AnswerFaults(ans) == IF ans = "some" THEN 0 ELSE 1
RECURSIVE OracleFaults(_)
OracleFaults(o) == IF o = <<>> THEN 0 ELSE AnswerFaults(Head(o)) + OracleFaults(Tail(o))
SlotOf(call) == IF call.answer = "some" THEN InFlight ELSE NoHandle
SlotsOf(calls) == [k \in 1..Len(calls) |-> SlotOf(calls[k])]

(***************************************************************************)
(* build_fragment_request, send_fragment_request, parse_task               *)
(***************************************************************************)
\* the request for an attribute value, or InvalidRequestUrl
build_fragment_request(v) ==
    IF v.valid THEN Ok(v.url) ELSE Err(InvalidRequestUrl(v.url))

\* one call of the dispatcher, answered ans; h is the handle of the call
send_fragment_request_no_continue(req, alt, coe, ans, h) ==
    CASE ans = "some" -> Ok(Some(Fragment(req, alt, FALSE, h)))
      [] ans = "none" -> Ok(None)
      [] OTHER -> Err(RequestError(req))
send_fragment_request_none_is_error(req, alt, coe, ans, h) ==
    CASE ans = "some" -> Ok(Some(Fragment(req, alt, coe, h)))
      [] OTHER -> Err(RequestError(req))
send_fragment_request_always_continue(req, alt, coe, ans, h) ==
    CASE ans = "some" -> Ok(Some(Fragment(req, alt, TRUE, h)))
      [] ans = "none" -> Ok(None)
      [] OTHER -> Err(RequestError(req))
send_fragment_request(req, alt, coe, ans, h) ==
    CASE ans = "some" -> Ok(Some(Fragment(req, alt, coe, h)))
      [] ans = "none" -> Ok(None)
      [] OTHER -> Err(RequestError(req))

\* the alt handed to send_fragment_request for the request of an alt: None
alt_of_alt_kept(f) == f.alt
alt_of_alt(f) == None

\* the alt attribute kept only when its URL can be built into a request
alt_request_valid_only(alt) ==
    IF alt.some /\ build_fragment_request(alt.val).ok
    THEN Some(build_fragment_request(alt.val)) ELSE None

\* the Option<Result<Request>> kept for the alt attribute
alt_request(alt) ==
    IF alt.some THEN Some(build_fragment_request(alt.val)) ELSE None

\* parse_task over events[k..], the dispatcher answering its calls with the
\* answers of oracle in turn; h0 is the number of calls made before the
\* task.  The result carries the calls made, also when it is an error.
RECURSIVE parse_task_from(_, _, _, _, _, _)
parse_task_from(events, k, task, oracle, calls, h0) ==
    IF k > Len(events) THEN [res |-> Ok(task), calls |-> calls]
    ELSE LET event == events[k] IN
      CASE event.type = "Include" ->
             LET req == build_fragment_request(event.src)
                 alt_req == alt_request(event.alt)
             IN IF ~req.ok THEN [res |-> Err(req.err), calls |-> calls]
                ELSE LET ans == oracle[Len(calls) + 1]
                         sent == send_fragment_request(req.val, alt_req,
                                     event.continue_on_error, ans, h0 + Len(calls) + 1)
                         calls2 == Append(calls, Call(req.val, ans))
                     IN IF ~sent.ok THEN [res |-> Err(sent.err), calls |-> calls2]
                        ELSE IF sent.val.some
                        THEN parse_task_from(events, k + 1,
                                 [task EXCEPT !.queue = Append(@, Include(sent.val.val))],
                                 oracle, calls2, h0)
                        ELSE parse_task_from(events, k + 1, task, oracle, calls2, h0)
        [] event.type = "XML" ->
             parse_task_from(events, k + 1,
                 [task EXCEPT !.queue = Append(@, Raw(XmlBytes(event.pos)))],
                 oracle, calls, h0)
        [] OTHER -> parse_task_from(events, k + 1, task, oracle, calls, h0)

parse_task(events, oracle, h0) == parse_task_from(events, 1, Task, oracle, <<>>, h0)

(***************************************************************************)
(* State                                                                   *)
(***************************************************************************)
VARIABLES
    pc,          \* "parse", "poll", "attempt", "except", "done" or "panic"
    input,       \* the reader events read so far
    events,      \* the events the callback has been invoked with so far
    frames,      \* the active calls of do_parse, the innermost last
    root,        \* the event vector parse_tags gives to the outermost call
    depth,       \* the depth counter of parse_tags
    current_arm, \* "None", "Try", "Attempt" or "Except"
    elements,    \* the queue of document elements
    output,      \* the bytes written to output_writer
    dispatched,  \* the calls of dispatch_fragment_request, in order
    responses,   \* the state of the handle of each call
    arrivals,    \* the handles whose answer has arrived, in order of arrival
    result,      \* the value process_document returned, once pc = "done"
    cur,         \* the Try element poll_elements has popped and is polling
    faults,      \* abnormal answers and malformed URLs so far
    call,        \* the function called on its own, with its arguments
    returned,    \* the outcome of that call, once it has returned
    hook         \* the process_fragment_response given to process_document

parser == <<frames, root, depth, current_arm>>
scheduler == <<elements, output, dispatched, responses, cur>>
reader == <<input, events, frames, root, depth, current_arm, arrivals>>
evaluator == <<call, returned>>
processor == <<pc, input, events, frames, root, depth, current_arm, elements, output,
               dispatched, responses, arrivals, result, cur, faults, hook>>
vars == <<pc, input, events, frames, root, depth, current_arm, elements, output,
          dispatched, responses, arrivals, result, cur, faults, call, returned, hook>>

Running == Err([kind |-> "running", url |-> NoUrl, status |-> 0])
NoCur == [type |-> "None"]
NoCall == [fn |-> "none"]
NotReturned == [kind |-> "none"]
\* process_document called with None for process_fragment_response
NoHook == None

\* the locals of one call of do_parse; target tells which vector of the
\* calling frame its task parameter refers to
Frame(target) ==
    [target |-> target, is_remove_tag |-> FALSE, open_include |-> FALSE,
     attempt_events |-> <<>>, except_events |-> <<>>]

Init ==
    /\ pc = "parse"
    /\ input = <<>>
    /\ events = <<>>
    /\ frames = <<Frame("root")>>
    /\ root = <<>>
    /\ depth = 0
    /\ current_arm = "None"
    /\ elements = <<>>
    /\ output = <<>>
    /\ dispatched = <<>>
    /\ responses = <<>>
    /\ arrivals = <<>>
    /\ result = Running
    /\ cur = NoCur
    /\ faults = 0
    /\ call = NoCall
    /\ returned = NotReturned
    /\ hook = NoHook

(***************************************************************************)
(* do_parse: what one reader event does to the state of the parser, and    *)
(* what it asks for: nothing, an invocation of the callback, an error      *)
(* returned by parse_tags, or the return of parse_tags.                    *)
(***************************************************************************)
Nothing == [kind |-> "none"]
Invoke(event) == [kind |-> "callback", event |-> event]
Raise(e) == [kind |-> "err", err |-> e]
Returned == [kind |-> "returned"]

Top(fs) == fs[Len(fs)]
Parsed(fs, rt, d, arm, effect) ==
    [frames |-> fs, root |-> rt, depth |-> d, current_arm |-> arm, effect |-> effect]

\* task.push(event) in the innermost call
PushTask(fs, rt, event) ==
    IF Len(fs) = 1 THEN [frames |-> fs, root |-> Append(rt, event)]
    ELSE [frames |->
            IF Top(fs).target = "attempt"
            THEN [fs EXCEPT ![Len(fs) - 1].attempt_events = Append(@, event)]
            ELSE [fs EXCEPT ![Len(fs) - 1].except_events = Append(@, event)],
          root |-> rt]

\* return Ok(()) from the innermost call: its caller goes on reading, and
\* parse_tags returns when the outermost call returns
ReturnOk(fs, rt, d, arm) ==
    IF Len(fs) = 1 THEN Parsed(fs, rt, d, arm, Returned)
    ELSE Parsed(SubSeq(fs, 1, Len(fs) - 1), rt, d, arm, Nothing)

\* include_tag_handler with every include handed to the callback
include_tag_handler_always_callback(fs, rt, d, arm, tok) ==
    LET tag == parse_include(tok) IN
    IF ~tag.ok THEN Parsed(fs, rt, d, arm, Raise(tag.err))
    ELSE Parsed(fs, rt, d, arm, Invoke(tag.val))

\* include_tag_handler: to the callback at depth 0, to the task otherwise
include_tag_handler(fs, rt, d, arm, tok) ==
    LET tag == parse_include(tok) IN
    IF ~tag.ok THEN Parsed(fs, rt, d, arm, Raise(tag.err))
    ELSE IF d = 0 THEN Parsed(fs, rt, d, arm, Invoke(tag.val))
    ELSE LET t == PushTask(fs, rt, tag.val)
         IN Parsed(t.frames, t.root, d, arm, Nothing)

\* try_end_handler with every Try event handed to the callback
try_end_handler_always_callback(fs, rt, d, arm, tok) ==
    LET event == TryEvent(Top(fs).attempt_events, Top(fs).except_events, tok.pos)
        taken == [fs EXCEPT ![Len(fs)].attempt_events = <<>>,
                            ![Len(fs)].except_events = <<>>]
    IN Parsed(taken, rt, d - 1, arm, Invoke(event))

\* try_end_handler with the depth left as it is by its caller
try_end_handler_depth_kept(fs, rt, d, arm, tok) ==
    LET event == TryEvent(Top(fs).attempt_events, Top(fs).except_events, tok.pos)
        taken == [fs EXCEPT ![Len(fs)].attempt_events = <<>>,
                            ![Len(fs)].except_events = <<>>]
    IN IF d = 1 THEN Parsed(taken, rt, d, arm, Invoke(event))
       ELSE LET t == PushTask(taken, rt, event)
            IN Parsed(t.frames, t.root, d, arm, Nothing)

\* try_end_handler: the Try event takes the two vectors of the innermost call
try_end_handler(fs, rt, d, arm, tok) ==
    LET event == TryEvent(Top(fs).attempt_events, Top(fs).except_events, tok.pos)
        taken == [fs EXCEPT ![Len(fs)].attempt_events = <<>>,
                            ![Len(fs)].except_events = <<>>]
    IN IF d = 1 THEN Parsed(taken, rt, d - 1, arm, Invoke(event))
       ELSE LET t == PushTask(taken, rt, event)
            IN Parsed(t.frames, t.root, d - 1, arm, Nothing)

\* is_remove_tag = v and open_include = v in the innermost call
mark_remove_lost(fs, v) == fs
mark_remove(fs, v) == [fs EXCEPT ![Len(fs)].is_remove_tag = v]
mark_open_include_lost(fs, v) == fs
mark_open_include(fs, v) == [fs EXCEPT ![Len(fs)].open_include = v]

\* the open tag of an arm read with current_arm not looked at
start_arm_unchecked(fs, rt, d, arm, tok) ==
    IF NameIs(tok.name, "attempt")
    THEN Parsed(Append(fs, Frame("attempt")), rt, d, "Attempt", Nothing)
    ELSE Parsed(Append(fs, Frame("except")), rt, d, "Except", Nothing)

\* the open tag of an arm: an error unless current_arm is Try, a recursive
\* call of do_parse on the vector of the arm otherwise
start_arm(fs, rt, d, arm, tok) ==
    IF arm # "Try"
    THEN Parsed(fs, rt, d, arm, Raise(UnexpectedOpeningTag(tok.pos)))
    ELSE IF NameIs(tok.name, "attempt")
    THEN Parsed(Append(fs, Frame("attempt")), rt, d, "Attempt", Nothing)
    ELSE Parsed(Append(fs, Frame("except")), rt, d, "Except", Nothing)

do_parse(tok) ==
    LET fs == frames
        top == Top(frames)
        n == tok.name
        k == tok.kind
        same == Parsed(fs, root, depth, current_arm, Nothing)
    IN
    CASE k = "Start" /\ NameIs(n, "remove") ->
           Parsed(mark_remove(fs, TRUE), root, depth,
                  current_arm, Nothing)
      [] k = "End" /\ NameIs(n, "remove") ->
           IF ~top.is_remove_tag
           THEN Parsed(fs, root, depth, current_arm, Raise(UnexpectedClosingTag(tok.pos)))
           ELSE Parsed(mark_remove(fs, FALSE), root, depth,
                       current_arm, Nothing)
      [] top.is_remove_tag -> same
      [] k = "Empty" /\ NameStartsWith(n, "include") ->
           include_tag_handler(fs, root, depth, current_arm, tok)
      [] k = "Start" /\ NameStartsWith(n, "include") ->
           include_tag_handler(mark_open_include(fs, TRUE), root,
                               depth, current_arm, tok)
      [] k = "End" /\ NameStartsWith(n, "include") ->
           IF ~top.open_include
           THEN Parsed(fs, root, depth, current_arm, Raise(UnexpectedClosingTag(tok.pos)))
           ELSE Parsed(mark_open_include(fs, FALSE), root, depth,
                       current_arm, Nothing)
      [] top.open_include -> same
      [] k = "Empty" /\ NameStartsWith(n, "comment") -> same
      [] k = "Start" /\ NameIs(n, "try") ->
           Parsed(fs, root, depth + 1, "Try", Nothing)
      [] k = "Start" /\ (NameIs(n, "attempt") \/ NameIs(n, "except")) ->
           start_arm(fs, root, depth, current_arm, tok)
      [] k = "End" /\ NameIs(n, "try") ->
           IF depth = 0
           THEN Parsed(fs, root, depth, "None", Raise(UnexpectedClosingTag(tok.pos)))
           ELSE try_end_handler(fs, root, depth, "None", tok)
      [] k = "End" /\ (NameIs(n, "attempt") \/ NameIs(n, "except")) ->
           IF depth = 0
           THEN Parsed(fs, root, depth, "Try", Raise(UnexpectedClosingTag(tok.pos)))
           ELSE ReturnOk(fs, root, depth, "Try")
      [] k = "Eof" -> ReturnOk(fs, root, depth, current_arm)
      [] k = "Error" -> same
      [] OTHER ->
           IF depth = 0 THEN Parsed(fs, root, depth, current_arm, Invoke(XML(tok.pos)))
           ELSE LET t == PushTask(fs, root, XML(tok.pos))
                IN Parsed(t.frames, t.root, depth, current_arm, Nothing)

(***************************************************************************)
(* The runtime's side of dispatch and wait                                 *)
(***************************************************************************)
\* the dispatcher called for the requests of a task in reverse order
Dispatch_last_first(calls) ==
    LET reversed == [k \in 1..Len(calls) |-> calls[Len(calls) + 1 - k]]
    IN /\ dispatched' = dispatched \o reversed
       /\ responses' = responses \o SlotsOf(reversed)

\* the dispatcher has been called: its calls are logged, each handle in flight
Dispatch(calls) ==
    /\ dispatched' = dispatched \o calls
    /\ responses' = responses \o SlotsOf(calls)

\* the answers wait() can return for handle h: none before the answer has
\* arrived
WaitResults(h) ==
    IF responses[h].kind # "arrived" THEN {}
    ELSE { HttpResponse(s) : s \in Statuses }
         \cup (IF faults < MaxFaults THEN {SendError} ELSE {})
WaitFaults(res) == IF res.kind = "senderr" THEN 1 ELSE 0

\* wait() on handle h has returned res, and the dispatcher has been called
Waited(h, res, calls) ==
    /\ dispatched' = dispatched \o calls
    /\ responses' = [responses EXCEPT ![h] = res] \o SlotsOf(calls)

\* process_document returns r
Return(r) ==
    /\ result' = r
    /\ pc' = "done"

\* the answer to the request of handle h arrives; nothing observes it before
\* the drain loop
Complete(h) ==
    /\ pc \notin {"parse", "done"}
    /\ responses[h].kind = "inflight"
    /\ responses' = [responses EXCEPT ![h] = Arrived]
    /\ arrivals' = Append(arrivals, h)
    /\ UNCHANGED <<pc, input, events, parser, elements, output, dispatched,
                   result, cur, faults, evaluator, hook>>

(***************************************************************************)
(* The callback process_document gives to parse_tags; f0 is the number of  *)
(* faults before the dispatcher is called                                  *)
(***************************************************************************)
\* Event::XML: written through when nothing is queued, queued as Raw otherwise
CallbackXML_always_queued(event, f0) ==
    /\ elements' = Append(elements, Raw(XmlBytes(event.pos)))
    /\ faults' = f0
    /\ UNCHANGED <<pc, result, output, dispatched, responses, cur>>
CallbackXML_always_written(event, f0) ==
    /\ output' = output \o XmlBytes(event.pos)
    /\ faults' = f0
    /\ UNCHANGED <<pc, result, elements, dispatched, responses, cur>>
CallbackXML(event, f0) ==
    /\ IF elements = <<>>
       THEN /\ output' = output \o XmlBytes(event.pos)
            /\ UNCHANGED elements
       ELSE /\ elements' = Append(elements, Raw(XmlBytes(event.pos)))
            /\ UNCHANGED output
    /\ faults' = f0
    /\ UNCHANGED <<pc, result, dispatched, responses, cur>>

\* Event::ESI(Tag::Include): build both requests, dispatch the primary
CallbackInclude(event, f0) ==
    LET req == build_fragment_request(event.src)
        alt_req == alt_request(event.alt)
    IN /\ UNCHANGED <<output, cur>>
       /\ IF ~req.ok
          THEN /\ faults' = f0
               /\ Return(Err(req.err))
               /\ UNCHANGED <<elements, dispatched, responses>>
          ELSE \E ans \in DispatchAnswers :
                LET sent == send_fragment_request(req.val, alt_req,
                                event.continue_on_error, ans, Len(dispatched) + 1)
                IN /\ f0 + AnswerFaults(ans) <= MaxFaults
                   /\ faults' = f0 + AnswerFaults(ans)
                   /\ Dispatch(<<Call(req.val, ans)>>)
                   /\ IF ~sent.ok
                      THEN Return(Err(sent.err)) /\ UNCHANGED elements
                      ELSE /\ elements' = IF sent.val.some
                                          THEN Append(elements, Include(sent.val.val))
                                          ELSE elements
                           /\ UNCHANGED <<pc, result>>

\* Event::ESI(Tag::Try): one task per arm, the attempt arm first
CallbackTry(event, f0) ==
    LET n == Cardinality({ k \in 1..Len(event.attempt_events) :
                             event.attempt_events[k].type = "Include" })
             + Cardinality({ k \in 1..Len(event.except_events) :
                               event.except_events[k].type = "Include" })
    IN \E oracle \in [1..n -> DispatchAnswers] :
        LET a == parse_task(event.attempt_events, oracle, Len(dispatched))
            e == parse_task(event.except_events,
                            SubSeq(oracle, Len(a.calls) + 1, Len(oracle)),
                            Len(dispatched) + Len(a.calls))
            calls == IF a.res.ok THEN a.calls \o e.calls ELSE a.calls
        IN /\ f0 + OracleFaults(oracle) <= MaxFaults
           /\ OracleFaults(SubSeq(oracle, 1, Len(calls))) = OracleFaults(oracle)
           /\ faults' = f0 + OracleFaults(oracle)
           /\ Dispatch(calls)
           /\ UNCHANGED <<output, cur>>
           /\ IF ~a.res.ok THEN Return(Err(a.res.err)) /\ UNCHANGED elements
              ELSE IF ~e.res.ok THEN Return(Err(e.res.err)) /\ UNCHANGED elements
              ELSE /\ elements' = Append(elements,
                                      Try(a.res.val, e.res.val, event.pos))
                   /\ UNCHANGED <<pc, result>>

Callback(event, f0) ==
    CASE event.type = "XML" -> CallbackXML(event, f0)
      [] event.type = "Include" -> CallbackInclude(event, f0)
      [] OTHER -> CallbackTry(event, f0)

(***************************************************************************)
(* The documents read: passthrough events and self-closing includes at     *)
(* the root and in the arms of a try, a try made of an attempt arm and an  *)
(* optional except arm, within the bounds.                                 *)
(***************************************************************************)
IsText(tok) == tok.kind = "Text"
IsIncludeTag(tok) == tok.kind = "Empty" /\ NameStartsWith(tok.name, "include")
IsTryStart(tok) == tok.kind = "Start" /\ NameIs(tok.name, "try")
LastTry == CHOOSE k \in 0..Len(input) :
              /\ k > 0 => IsTryStart(input[k])
              /\ \A j \in (k + 1)..Len(input) : ~IsTryStart(input[j])
CountText == Cardinality({ k \in 1..Len(input) : IsText(input[k]) })
CountIncludeTags == Cardinality({ k \in 1..Len(input) : IsIncludeTag(input[k]) })
CountTryStarts == Cardinality({ k \in 1..Len(input) : IsTryStart(input[k]) })
ArmSeen(local) ==
    \E k \in (LastTry + 1)..Len(input) :
        input[k].kind = "Start" /\ NameIs(input[k].name, local)

Content(p) ==
    (IF CountText < MaxXml THEN {Text(p)} ELSE {})
    \cup (IF CountIncludeTags < MaxIncludes THEN IncludeTags(p) ELSE {})

Offered ==
    LET p == Len(input) + 1 IN
    CASE Len(frames) = 1 /\ depth = 0 ->
           {Eof(p)}
           \cup (IF Len(events) < MaxEvents
                 THEN Content(p)
                      \cup (IF CountTryStarts < MaxTries
                            THEN {Start("try", p)} ELSE {})
                 ELSE {})
      [] Len(frames) = 1 /\ depth > 0 ->
           IF ~ArmSeen("attempt") THEN {Start("attempt", p)}
           ELSE IF ~ArmSeen("except") THEN {Start("except", p), End("try", p)}
           ELSE {End("try", p)}
      [] OTHER ->
           LET arm == Top(frames).target
               evs == IF arm = "attempt" THEN frames[1].attempt_events
                      ELSE frames[1].except_events
           IN {End(arm, p)} \cup (IF Len(evs) < MaxArm THEN Content(p) ELSE {})

\* the reader returns tok and do_parse handles it
Read(tok) ==
    LET r == do_parse(tok)
        f0 == faults + TagFaults(tok)
    IN /\ f0 <= MaxFaults
       /\ input' = Append(input, tok)
       /\ UNCHANGED <<arrivals, evaluator, hook>>
       /\ frames' = r.frames
       /\ root' = r.root
       /\ depth' = r.depth
       /\ current_arm' = r.current_arm
       /\ CASE r.effect.kind = "callback" ->
                 /\ events' = Append(events, r.effect.event)
                 /\ Callback(r.effect.event, f0)
            [] r.effect.kind = "err" ->
                 /\ Return(Err(r.effect.err))
                 /\ faults' = f0
                 /\ UNCHANGED <<events, scheduler>>
            [] r.effect.kind = "returned" ->
                 /\ pc' = "poll"
                 /\ faults' = f0
                 /\ UNCHANGED <<events, result, scheduler>>
            [] OTHER ->
                 /\ faults' = f0
                 /\ UNCHANGED <<pc, events, result, scheduler>>

\* one reader event is read and handled by do_parse
ReadEvent ==
    /\ pc = "parse"
    /\ \E tok \in Offered : Read(tok)

(***************************************************************************)
(* poll_elements: one iteration of its loop per step.  The drain loop of   *)
(* process_document calls poll_elements again as long as the queue is not  *)
(* empty, so a break and a continue both lead to the next iteration.       *)
(***************************************************************************)
\* the error a process_fragment_response returns
HookError(u) == [kind |-> "HookError", url |-> u, status |-> 0]

\* process_response(&mut request, res)?, or res when no hook was given: the
\* hook answers each status of the backend with a status or with an error
process_response_unused(f, res) == Ok(res)
process_response(f, res) ==
    IF ~hook.some THEN Ok(res)
    ELSE IF hook.val[res.status].ok THEN Ok(HttpResponse(hook.val[res.status].val))
    ELSE Err(HookError(f.request))

\* what poll_elements does with a fragment whose handle answered res; ans and
\* h are the dispatcher's answer and the handle if the alt is dispatched
poll_elements_include_failure_dropped(f, res, ans, h) ==
    IF res.kind = "senderr"
    THEN [act |-> "err", err |-> RequestError(f.request), calls |-> <<>>]
    ELSE IF ~process_response(f, res).ok
    THEN [act |-> "err", err |-> process_response(f, res).err, calls |-> <<>>]
    ELSE IF is_success(process_response(f, res).val.status)
    THEN [act |-> "write", bytes |-> BodyOf(f.request), calls |-> <<>>]
    ELSE IF f.alt.some
    THEN IF ~f.alt.val.ok
         THEN [act |-> "err", err |-> f.alt.val.err, calls |-> <<>>]
         ELSE LET sent == send_fragment_request(f.alt.val.val, alt_of_alt(f),
                              f.continue_on_error, ans, h)
                  calls == <<Call(f.alt.val.val, ans)>>
              IN IF ~sent.ok THEN [act |-> "err", err |-> sent.err, calls |-> calls]
                 ELSE IF sent.val.some
                 THEN [act |-> "push_front", element |-> Include(sent.val.val),
                       calls |-> calls]
                 ELSE [act |-> "continue", calls |-> calls]
    ELSE IF f.continue_on_error
    THEN [act |-> "continue", calls |-> <<>>]
    ELSE [act |-> "continue", calls |-> <<>>]
poll_elements_include(f, res, ans, h) ==
    IF res.kind = "senderr"
    THEN [act |-> "err", err |-> RequestError(f.request), calls |-> <<>>]
    ELSE IF ~process_response(f, res).ok
    THEN [act |-> "err", err |-> process_response(f, res).err, calls |-> <<>>]
    ELSE IF is_success(process_response(f, res).val.status)
    THEN [act |-> "write", bytes |-> BodyOf(f.request), calls |-> <<>>]
    ELSE IF f.alt.some
    THEN IF ~f.alt.val.ok
         THEN [act |-> "err", err |-> f.alt.val.err, calls |-> <<>>]
         ELSE LET sent == send_fragment_request(f.alt.val.val, alt_of_alt(f),
                              f.continue_on_error, ans, h)
                  calls == <<Call(f.alt.val.val, ans)>>
              IN IF ~sent.ok THEN [act |-> "err", err |-> sent.err, calls |-> calls]
                 ELSE IF sent.val.some
                 THEN [act |-> "push_front", element |-> Include(sent.val.val),
                       calls |-> calls]
                 ELSE [act |-> "continue", calls |-> calls]
    ELSE IF f.continue_on_error
    THEN [act |-> "continue", calls |-> <<>>]
    ELSE [act |-> "err",
          err |-> UnexpectedStatus(f.request, process_response(f, res).val.status),
          calls |-> <<>>]

\* elements.push_front of the element built for the alt
requeue_alt_at_back(queue, element) == Append(queue, element)
requeue_alt(queue, element) == <<element>> \o queue

\* Element::Raw
PollRaw ==
    /\ pc = "poll"
    /\ elements # <<>>
    /\ Head(elements).type = "Raw"
    /\ output' = output \o Head(elements).bytes
    /\ elements' = Tail(elements)
    /\ UNCHANGED <<pc, reader, evaluator, hook, dispatched, responses, result, cur, faults>>

\* Element::Include: wait for the handle, then write, fall back or fail
PollInclude ==
    /\ pc = "poll"
    /\ elements # <<>>
    /\ Head(elements).type = "Include"
    /\ LET f == Head(elements).fragment IN
          \E res \in WaitResults(f.pending_request), ans \in DispatchAnswers :
              LET o == poll_elements_include(f, res, ans, Len(dispatched) + 1) IN
              /\ faults + WaitFaults(res) + AnswerFaults(ans) <= MaxFaults
              /\ o.calls = <<>> => ans = "some"
              /\ faults' = faults + WaitFaults(res) + AnswerFaults(ans)
              /\ Waited(f.pending_request, res, o.calls)
              /\ CASE o.act = "write" ->
                        /\ output' = output \o o.bytes
                        /\ elements' = Tail(elements)
                        /\ UNCHANGED <<pc, result>>
                   [] o.act = "push_front" ->
                        /\ elements' = requeue_alt(Tail(elements), o.element)
                        /\ UNCHANGED <<pc, result, output>>
                   [] o.act = "continue" ->
                        /\ elements' = Tail(elements)
                        /\ UNCHANGED <<pc, result, output>>
                   [] OTHER ->
                        /\ Return(Err(o.err))
                        /\ elements' = Tail(elements)
                        /\ UNCHANGED output
    /\ UNCHANGED <<reader, evaluator, hook, cur>>

\* Element::Try: the element is popped and its attempt task is polled first
PollTry ==
    /\ pc = "poll"
    /\ elements # <<>>
    /\ Head(elements).type = "Try"
    /\ cur' = [type |-> "Try",
               attempt_task |-> Head(elements).attempt_task,
               except_task |-> Head(elements).except_task,
               pos |-> Head(elements).pos,
               attempt_state |-> Pending]
    /\ elements' = Tail(elements)
    /\ pc' = "attempt"
    /\ UNCHANGED <<reader, evaluator, hook, output, dispatched, responses, result, faults>>

\* the queue is empty: process_document returns Ok
PollEnd ==
    /\ pc = "poll"
    /\ elements = <<>>
    /\ Return(Ok("unit"))
    /\ UNCHANGED <<reader, evaluator, hook, elements, output, dispatched, responses, cur, faults>>

(***************************************************************************)
(* poll_tasks on the two tasks of the popped Try element, one iteration    *)
(* of its loop per step, and the match on the two states it returned       *)
(***************************************************************************)
\* what poll_tasks does with a fragment whose handle answered res
poll_tasks_include(f, res, ans, h) ==
    IF res.kind = "senderr"
    THEN [act |-> "err", err |-> RequestError(f.request), calls |-> <<>>]
    ELSE IF ~process_response(f, res).ok
    THEN [act |-> "err", err |-> process_response(f, res).err, calls |-> <<>>]
    ELSE IF is_success(process_response(f, res).val.status)
    THEN [act |-> "extend", bytes |-> BodyOf(f.request), calls |-> <<>>]
    ELSE IF f.alt.some
    THEN IF ~f.alt.val.ok
         THEN [act |-> "err", err |-> f.alt.val.err, calls |-> <<>>]
         ELSE LET sent == send_fragment_request(f.alt.val.val, alt_of_alt(f),
                              f.continue_on_error, ans, h)
                  calls == <<Call(f.alt.val.val, ans)>>
              IN IF ~sent.ok THEN [act |-> "err", err |-> sent.err, calls |-> calls]
                 ELSE IF sent.val.some
                 THEN [act |-> "pending", element |-> Include(sent.val.val),
                       calls |-> calls]
                 ELSE [act |-> "continue", calls |-> calls]
    ELSE IF f.continue_on_error
    THEN [act |-> "continue", calls |-> <<>>]
    ELSE [act |-> "failed",
          status |-> Failed(f.request, process_response(f, res).val.status),
          calls |-> <<>>]

\* the match pushing the element back also when both tasks have failed
resolve_try_again(attempt_state, except_state) ==
    CASE attempt_state.state = "Succeeded" -> "attempt"
      [] attempt_state.state = "Failed" /\ except_state.state = "Succeeded" -> "except"
      [] OTHER -> "repush"

\* the match deciding on the state of the attempt task alone
resolve_try_attempt_decides(attempt_state, except_state) ==
    CASE attempt_state.state = "Succeeded" -> "attempt"
      [] attempt_state.state = "Failed" -> "fail"
      [] OTHER -> "repush"

\* the arm of the match in poll_elements that the two states select
resolve_try_eager(attempt_state, except_state) ==
    CASE attempt_state.state = "Succeeded" -> "attempt"
      [] except_state.state = "Succeeded" -> "except"
      [] attempt_state.state = "Failed" /\ except_state.state = "Failed" -> "fail"
      [] OTHER -> "repush"
resolve_try(attempt_state, except_state) ==
    CASE attempt_state.state = "Succeeded" -> "attempt"
      [] attempt_state.state = "Failed" /\ except_state.state = "Succeeded" -> "except"
      [] attempt_state.state = "Failed" /\ except_state.state = "Failed" -> "fail"
      [] OTHER -> "repush"

\* the bytes the selected arm of the match hands to output_handler
try_output_of_attempt(arm, attempt_task, except_task) == attempt_task.output
try_output(arm, attempt_task, except_task) ==
    IF arm = "attempt" THEN attempt_task.output ELSE except_task.output

\* the error of the arm of the match for two failed tasks
try_failure_of_except(attempt_state, except_state) ==
    UnexpectedStatus(except_state.request, except_state.status)
try_failure(attempt_state, except_state) ==
    UnexpectedStatus(attempt_state.request, attempt_state.status)

\* elements.push_front of a Try element one of whose tasks is pending
requeue_try(queue, element) == <<element>> \o queue

\* task.queue.push_front of the element built for the alt
task_requeue_alt(queue, element) == <<element>> \o queue

\* the task poll_tasks is working on
CurTask == IF pc = "attempt" THEN cur.attempt_task ELSE cur.except_task

\* poll_tasks goes on with the next element of its queue
TaskGoesOn(task) ==
    /\ cur' = IF pc = "attempt" THEN [cur EXCEPT !.attempt_task = task]
              ELSE [cur EXCEPT !.except_task = task]
    /\ UNCHANGED <<pc, elements, output, result>>

\* poll_tasks returns Err(e), which poll_elements hands on
TaskFails(task, e) ==
    /\ cur' = IF pc = "attempt" THEN [cur EXCEPT !.attempt_task = task]
              ELSE [cur EXCEPT !.except_task = task]
    /\ Return(Err(e))
    /\ UNCHANGED <<elements, output>>

\* poll_tasks returns Ok(state): the except task is polled after the attempt
\* task, and the two states are matched after the except task
TaskReturns(task, state) ==
    IF pc = "attempt"
    THEN /\ cur' = [cur EXCEPT !.attempt_task = task, !.attempt_state = state]
         /\ pc' = "except"
         /\ UNCHANGED <<elements, output, result>>
    ELSE LET arm == resolve_try(cur.attempt_state, state) IN
         CASE arm \in {"attempt", "except"} ->
                /\ output' = output \o try_output(arm, cur.attempt_task, task)
                /\ pc' = "poll"
                /\ cur' = NoCur
                /\ UNCHANGED <<elements, result>>
           [] arm = "fail" ->
                /\ Return(Err(try_failure(cur.attempt_state, state)))
                /\ cur' = [cur EXCEPT !.except_task = task]
                /\ UNCHANGED <<elements, output>>
           [] OTHER ->
                /\ elements' = requeue_try(elements, Try(cur.attempt_task, task, cur.pos))
                /\ pc' = "poll"
                /\ cur' = NoCur
                /\ UNCHANGED <<output, result>>

\* the task has failed in an earlier poll: its status is returned at once
PollTasksFailed_forgotten ==
    /\ pc \in {"attempt", "except"}
    /\ CurTask.status.state = "Failed"
    /\ TaskReturns([CurTask EXCEPT !.status = Pending], CurTask.status)
    /\ UNCHANGED <<reader, evaluator, hook, dispatched, responses, faults>>
PollTasksFailed ==
    /\ pc \in {"attempt", "except"}
    /\ CurTask.status.state = "Failed"
    /\ TaskReturns(CurTask, CurTask.status)
    /\ UNCHANGED <<reader, evaluator, hook, dispatched, responses, faults>>

\* Element::Raw: appended to the output of the task
PollTasksRaw ==
    /\ pc \in {"attempt", "except"}
    /\ CurTask.status.state # "Failed"
    /\ CurTask.queue # <<>>
    /\ Head(CurTask.queue).type = "Raw"
    /\ TaskGoesOn([CurTask EXCEPT !.queue = Tail(@),
                                  !.output = @ \o Head(CurTask.queue).bytes])
    /\ UNCHANGED <<reader, evaluator, hook, dispatched, responses, faults>>

\* Element::Include: wait for the handle, then extend, fall back or fail
PollTasksInclude ==
    /\ pc \in {"attempt", "except"}
    /\ CurTask.status.state # "Failed"
    /\ CurTask.queue # <<>>
    /\ Head(CurTask.queue).type = "Include"
    /\ LET f == Head(CurTask.queue).fragment
           popped == [CurTask EXCEPT !.queue = Tail(@)]
       IN \E res \in WaitResults(f.pending_request), ans \in DispatchAnswers :
              LET o == poll_tasks_include(f, res, ans, Len(dispatched) + 1) IN
              /\ faults + WaitFaults(res) + AnswerFaults(ans) <= MaxFaults
              /\ o.calls = <<>> => ans = "some"
              /\ faults' = faults + WaitFaults(res) + AnswerFaults(ans)
              /\ Waited(f.pending_request, res, o.calls)
              /\ CASE o.act = "extend" ->
                        TaskGoesOn([popped EXCEPT !.output = @ \o o.bytes])
                   [] o.act = "continue" -> TaskGoesOn(popped)
                   [] o.act = "pending" ->
                        TaskReturns([popped EXCEPT !.queue = task_requeue_alt(@, o.element)],
                                    Pending)
                   [] o.act = "failed" ->
                        TaskReturns([popped EXCEPT !.status = o.status], o.status)
                   [] OTHER -> TaskFails(popped, o.err)
    /\ UNCHANGED <<reader, evaluator, hook>>

\* the queue of the task is empty: poll_tasks returns Succeeded
PollTasksEnd ==
    /\ pc \in {"attempt", "except"}
    /\ CurTask.status.state # "Failed"
    /\ CurTask.queue = <<>>
    /\ TaskReturns(CurTask, Succeeded)
    /\ UNCHANGED <<reader, evaluator, hook, dispatched, responses, faults>>

(***************************************************************************)
(* The specification                                                       *)
(***************************************************************************)
Next ==
    \/ ReadEvent
    \/ \E h \in 1..Len(responses) : Complete(h)
    \/ PollRaw
    \/ PollInclude
    \/ PollTry
    \/ PollEnd
    \/ PollTasksFailed
    \/ PollTasksRaw
    \/ PollTasksInclude
    \/ PollTasksEnd

Spec == Init /\ [][Next]_vars

(***************************************************************************)
(* The processor with an output writer that can fail.  A write that fails  *)
(* under `?` makes process_document return the error; a write or a flush   *)
(* that fails under unwrap() or expect() panics: process_document does not *)
(* return, the thread unwinds from the named write.                        *)
(***************************************************************************)
Unwound(site) == [ok |-> FALSE, panic |-> site]
Unwind(site) ==
    /\ pc' = "panic"
    /\ result' = Unwound(site)

\* Event::XML with nothing queued: write_event(event)? fails, or flush() does
ReadEventWriteFails ==
    /\ pc = "parse"
    /\ elements = <<>>
    /\ \E tok \in Offered :
          LET r == do_parse(tok) IN
          /\ r.effect.kind = "callback"
          /\ r.effect.event.type = "XML"
          /\ input' = Append(input, tok)
          /\ frames' = r.frames
          /\ root' = r.root
          /\ depth' = r.depth
          /\ current_arm' = r.current_arm
          /\ events' = Append(events, r.effect.event)
          /\ \/ Return(Err(XMLError(tok.pos)))
             \/ Unwind("XML")
    /\ UNCHANGED <<arrivals, scheduler, faults, evaluator, hook>>

\* Element::Raw: write_all(&raw).unwrap() fails
PollRawWriteFails ==
    /\ pc = "poll"
    /\ elements # <<>>
    /\ Head(elements).type = "Raw"
    /\ elements' = Tail(elements)
    /\ Unwind("Raw")
    /\ UNCHANGED <<reader, evaluator, hook, output, dispatched, responses, cur, faults>>

\* Element::Include with a success status: write_all(body).unwrap() or
\* flush().expect() fails
PollIncludeWriteFails ==
    /\ pc = "poll"
    /\ elements # <<>>
    /\ Head(elements).type = "Include"
    /\ LET f == Head(elements).fragment IN
          \E res \in WaitResults(f.pending_request) :
              /\ res.kind # "senderr"
              /\ process_response(f, res).ok
              /\ is_success(process_response(f, res).val.status)
              /\ Waited(f.pending_request, res, <<>>)
    /\ elements' = Tail(elements)
    /\ Unwind("Include")
    /\ UNCHANGED <<reader, evaluator, hook, output, cur, faults>>

\* Element::Try resolved to one of its branches: output_handler fails
PollTryWriteFails ==
    /\ pc = "except"
    /\ CurTask.status.state = "Failed" \/ CurTask.queue = <<>>
    /\ LET state == IF CurTask.status.state = "Failed" THEN CurTask.status
                    ELSE Succeeded
       IN resolve_try(cur.attempt_state, state) \in {"attempt", "except"}
    /\ Unwind("Try")
    /\ UNCHANGED <<reader, evaluator, hook, scheduler, faults>>

WriterNext ==
    \/ Next
    \/ ReadEventWriteFails
    \/ PollRawWriteFails
    \/ PollIncludeWriteFails
    \/ PollTryWriteFails

WriterSpec == Init /\ [][WriterNext]_vars

(***************************************************************************)
(* The parser on arbitrary tag sequences: tags of another namespace, tags  *)
(* whose name only begins with a directive name, comment and remove,       *)
(* includes in open form and without src, nested and unbalanced try,       *)
(* attempt and except tags, events the reader reports as errors.  The      *)
(* runtime answers every call of the dispatcher with a handle and every    *)
(* URL parses; the queue is not drained.                                   *)
(***************************************************************************)
Tag(kind, ns, local, more, attrs, p) ==
    Token(kind, [ns |-> ns, local |-> local, more |-> more], attrs, p)
ReaderError(p) == Token("Error", NoName, NoAttrs, p)
Attrs(p, src, alt, onerror) ==
    [src |-> IF src THEN Some(AttrValue(p, "src", TRUE)) ELSE None,
     alt |-> IF alt THEN Some(AttrValue(p, "alt", TRUE)) ELSE None,
     onerror |-> IF onerror = "-" THEN None ELSE Some(onerror)]

\* the tags an include budget is spent on: include tags with and without
\* src, alt and onerror, in both forms, a tag whose name begins with include
\* and an include of another namespace
IncludeLike(p) ==
    { Tag("Empty", namespace, "include", "", Attrs(p, TRUE, FALSE, "-"), p),
      Tag("Empty", namespace, "include", "", Attrs(p, TRUE, TRUE, "continue"), p),
      Tag("Empty", namespace, "include", "", Attrs(p, TRUE, FALSE, "abort"), p),
      Tag("Empty", namespace, "include", "", Attrs(p, FALSE, TRUE, "-"), p),
      Tag("Start", namespace, "include", "", Attrs(p, TRUE, TRUE, "continue"), p),
      Tag("Start", namespace, "include", "", Attrs(p, FALSE, FALSE, "-"), p),
      Tag("Empty", namespace, "include", "x", Attrs(p, TRUE, FALSE, "-"), p),
      Tag("Empty", "app", "include", "", Attrs(p, TRUE, FALSE, "-"), p) }
\* the tags that may each occur once
Once(p) ==
    { Tag("Empty", namespace, "comment", "", NoAttrs, p),
      Tag("Empty", namespace, "other", "", NoAttrs, p),
      Tag("Start", "app", "try", "", NoAttrs, p),
      Start("remove", p),
      End("remove", p),
      End("include", p),
      ReaderError(p) }
\* the tags of a try, each of which may occur MaxNest times
Structure(p) ==
    { Start("try", p), Start("attempt", p), Start("except", p),
      End("try", p), End("attempt", p), End("except", p) }

Same(tok, other) == [tok EXCEPT !.pos = 0, !.attrs = NoAttrs] = [other EXCEPT !.pos = 0, !.attrs = NoAttrs]
Occurrences(tok) == Cardinality({ k \in 1..Len(input) : Same(input[k], tok) })
CountIncludeLike ==
    Cardinality({ k \in 1..Len(input) :
                    input[k].kind \in {"Empty", "Start"} /\ input[k].name.local = "include" })

\* after Eof the reader returns Eof again
ParserOffered ==
    LET p == Len(input) + 1 IN
    IF p > MaxTokens THEN {}
    ELSE IF input # <<>> /\ input[Len(input)].kind = "Eof" THEN {Eof(p)}
    ELSE {Eof(p)}
         \cup (IF CountText < MaxXml THEN {Text(p)} ELSE {})
         \cup (IF CountIncludeLike < MaxIncludes THEN IncludeLike(p) ELSE {})
         \cup { tok \in Once(p) : Occurrences(tok) = 0 }
         \cup { tok \in Structure(p) : Occurrences(tok) < MaxNest }

ParseEvent ==
    /\ pc = "parse"
    /\ \E tok \in ParserOffered : Read(tok)

ParserInit ==
    /\ pc = "parse"
    /\ input = <<>>
    /\ events = <<>>
    /\ frames = <<Frame("root")>>
    /\ root = <<>>
    /\ depth = 0
    /\ current_arm = "None"
    /\ elements = <<>>
    /\ output = <<>>
    /\ dispatched = <<>>
    /\ responses = <<>>
    /\ arrivals = <<>>
    /\ result = Running
    /\ cur = NoCur
    /\ faults = MaxFaults
    /\ call = NoCall
    /\ returned = NotReturned
    /\ hook = NoHook

ParserNext == ParseEvent

ParserSpec == ParserInit /\ [][ParserNext]_vars

(***************************************************************************)
(* The parser on balanced documents with nested try blocks: text and       *)
(* includes at the root and in the arms, a try at the root or in an arm,   *)
(* made of an optional attempt arm and an optional except arm, with text   *)
(* allowed between its tags.  The queue is not drained.                    *)
(***************************************************************************)
\* tok is the open, close or self-closing tag of the directive local
IsExactly(tok, kind, local) ==
    tok.kind = kind /\ tok.name = Name(namespace, local)

\* the parser is directly inside a try, between its arms
BetweenArms == Len(frames) = depth
\* the last tag read, text aside
RECURSIVE LastTag(_)
LastTag(k) ==
    IF k = 0 THEN Eof(0)
    ELSE IF input[k].kind = "Text" THEN LastTag(k - 1) ELSE input[k]

NestedOffered ==
    LET p == Len(input) + 1
        text == IF CountText < MaxXml THEN {Text(p)} ELSE {}
        last == LastTag(Len(input))
    IN
    IF p > MaxNestedTokens THEN {}
    ELSE IF BetweenArms
    THEN text
         \cup {End("try", p)}
         \cup (IF IsExactly(last, "Start", "try")
               THEN {Start("attempt", p), Start("except", p)} ELSE {})
         \cup (IF IsExactly(last, "End", "attempt")
               THEN {Start("except", p)} ELSE {})
    ELSE text
         \cup (IF CountIncludeTags < MaxIncludes
               THEN {Tag("Empty", namespace, "include", "", Attrs(p, TRUE, FALSE, "-"), p)}
               ELSE {})
         \cup (IF CountTryStarts < MaxNest THEN {Start("try", p)} ELSE {})
         \cup (IF depth = 0 THEN {Eof(p)} ELSE {End(Top(frames).target, p)})

NestedEvent ==
    /\ pc = "parse"
    /\ \E tok \in NestedOffered : Read(tok)

NestedNext == NestedEvent

NestedSpec == ParserInit /\ [][NestedNext]_vars

(***************************************************************************)
(* What the properties speak about                                         *)
(***************************************************************************)
IncludesOf(evs) == { evs[k] : k \in { j \in 1..Len(evs) : evs[j].type = "Include" } }
TryEvents == { events[k] : k \in { j \in 1..Len(events) : events[j].type = "Try" } }
RootIncludes == IncludesOf(events)
ArmIncludes(t) == IncludesOf(t.attempt_events) \cup IncludesOf(t.except_events)
AllIncludes == RootIncludes \cup UNION { ArmIncludes(t) : t \in TryEvents }

PositionsOf(evs) == { evs[k].pos : k \in 1..Len(evs) }

\* the calls of the dispatcher for URL u, and the answer wait() returned
Calls(u) == { h \in 1..Len(dispatched) : dispatched[h].request = u }
GotSuccess(u) ==
    \E h \in Calls(u) : responses[h].kind = "http" /\ is_success(responses[h].status)
GotFailure(u) ==
    \E h \in Calls(u) : responses[h].kind = "http" /\ ~is_success(responses[h].status)

\* the place of handle h in the order of arrival, 0 if it has not arrived
ArrivalOf(h) ==
    IF \E k \in 1..Len(arrivals) : arrivals[k] = h
    THEN CHOOSE k \in 1..Len(arrivals) : arrivals[k] = h
    ELSE 0

BodyAt(i) == output[i].k = "body"

\* the bytes of the output that come from the events at the positions ps
OutputOf(ps) == LET From(b) == b.pos \in ps IN SelectSeq(output, From)
TryOutput(t) == OutputOf(PositionsOf(t.attempt_events) \cup PositionsOf(t.except_events))

\* the Try element of the try event t is still queued or being polled
TryPending(t) ==
    \/ cur.type = "Try" /\ cur.pos = t.pos
    \/ \E k \in 1..Len(elements) : elements[k].type = "Try" /\ elements[k].pos = t.pos

\* the include resolved with a success status, through its src or its alt
Succeeds(e) ==
    GotSuccess(e.src.url) \/ (e.alt.some /\ GotSuccess(e.alt.val.url))

\* the request of the include that failed with nothing left to try: a
\* non-success status, no alt left, continue_on_error false
LastUrl(e) == IF e.alt.some THEN e.alt.val.url ELSE e.src.url
Fatal(e) == ~e.continue_on_error /\ GotFailure(LastUrl(e))
StatusOf(u) ==
    responses[CHOOSE h \in Calls(u) : responses[h].kind = "http"].status

\* the reference output of an include, of a vector of events and of a try
IncludeBytes(e) ==
    CASE GotSuccess(e.src.url) -> BodyOf(e.src.url)
      [] e.alt.some /\ GotSuccess(e.alt.val.url) -> BodyOf(e.alt.val.url)
      [] OTHER -> <<>>
RECURSIVE Processed(_)
Processed(evs) ==
    IF evs = <<>> THEN <<>>
    ELSE (CASE Head(evs).type = "XML" -> XmlBytes(Head(evs).pos)
            [] Head(evs).type = "Include" -> IncludeBytes(Head(evs))
            [] OTHER -> <<>>)
         \o Processed(Tail(evs))
AttemptFails(t) == \E a \in IncludesOf(t.attempt_events) : Fatal(a)
ExceptFails(t) == \E x \in IncludesOf(t.except_events) : Fatal(x)
AttemptSucceeds(t) ==
    /\ IncludesOf(t.attempt_events) # {}
    /\ \A a \in IncludesOf(t.attempt_events) : Succeeds(a)
ExceptSucceeds(t) == \A x \in IncludesOf(t.except_events) : Succeeds(x)
AttemptOutput(t) == OutputOf(PositionsOf(t.attempt_events))
ExceptOutput(t) == OutputOf(PositionsOf(t.except_events))
Done == pc = "done"
FailedAt(ps) == Done /\ ~result.ok /\ result.err.url.pos \in ps

(***************************************************************************)
(* C1: for any two includes at source positions p1 < p2 whose responses    *)
(* are both emitted, the first byte of the p1 response body is in the      *)
(* output before the first byte of the p2 response body, whatever the      *)
(* order in which the two backends complete.                               *)
(***************************************************************************)
C1_FragmentOrder ==
    \A i, j \in 1..Len(output) :
        (BodyAt(i) /\ BodyAt(j) /\ output[i].pos < output[j].pos) => i < j

\* two bodies are in the output and the backend of the later include
\* answered first
C1_Witness ==
    \E i, j \in 1..Len(output), hi, hj \in 1..Len(dispatched) :
        /\ BodyAt(i) /\ BodyAt(j) /\ output[i].pos < output[j].pos
        /\ dispatched[hi].request = Url(output[i].pos, output[i].attr)
        /\ dispatched[hj].request = Url(output[j].pos, output[j].attr)
        /\ ArrivalOf(hj) > 0
        /\ ArrivalOf(hj) < ArrivalOf(hi)

(***************************************************************************)
(* C2: if every include inside the attempt arm of a try returns a success  *)
(* status, the output of the try is the processed attempt subtree (its raw *)
(* content and include bodies in document order), the except subtree       *)
(* contributes no byte, and processing does not fail because of anything   *)
(* in the except arm.                                                      *)
(***************************************************************************)
C2_AttemptSuccess ==
    \A t \in TryEvents :
        AttemptSucceeds(t) =>
            /\ ~FailedAt(PositionsOf(t.except_events))
            /\ ExceptOutput(t) = <<>>
            /\ ~TryPending(t) => TryOutput(t) = Processed(t.attempt_events)

(***************************************************************************)
(* C3: if an include of the attempt arm without onerror="continue" fails   *)
(* (a non-success status with no alt left) and every include of the except *)
(* arm succeeds, the output of the try is the processed except subtree     *)
(* and holds none of the bytes of the attempt arm; the try is resolved     *)
(* when processing ends.                                                   *)
(***************************************************************************)
C3_ExceptOutput ==
    \A t \in TryEvents :
        (AttemptFails(t) /\ ExceptSucceeds(t)) =>
            /\ AttemptOutput(t) = <<>>
            /\ ~TryPending(t) => TryOutput(t) = Processed(t.except_events)
            /\ Done => ~TryPending(t)

\* a try has been resolved for its except arm, whose include body is written,
\* after its attempt arm had buffered bytes and then failed
C3_Witness ==
    \E t \in TryEvents :
        /\ AttemptFails(t) /\ ExceptSucceeds(t) /\ ~TryPending(t)
        /\ Processed(t.attempt_events) # <<>>
        /\ \E i \in 1..Len(output) : BodyAt(i) /\ output[i].pos \in PositionsOf(t.except_events)

(***************************************************************************)
(* C4: if both arms of a try contain a fatal include (non-success, no alt  *)
(* left, continue_on_error false), processing ends with UnexpectedStatus   *)
(* carrying the URL and the status of the failing request of the attempt   *)
(* arm, never those of the except arm, and the try writes nothing.  Until  *)
(* processing has ended the scheduler is polling that try.                 *)
(***************************************************************************)
C4_BothFail ==
    \A t \in TryEvents :
        (AttemptFails(t) /\ ExceptFails(t)) =>
            /\ TryOutput(t) = <<>>
            /\ ~Done => (cur.type = "Try" /\ cur.pos = t.pos)
            /\ Done => \E a \in IncludesOf(t.attempt_events) :
                          /\ Fatal(a)
                          /\ result = Err(UnexpectedStatus(LastUrl(a), StatusOf(LastUrl(a))))

\* both arms failed with different statuses and processing has ended
C4_Witness ==
    \E t \in TryEvents :
        /\ Done /\ AttemptFails(t) /\ ExceptFails(t)
        /\ \E a \in IncludesOf(t.attempt_events), x \in IncludesOf(t.except_events) :
              Fatal(a) /\ Fatal(x) /\ StatusOf(LastUrl(a)) # StatusOf(LastUrl(x))

(***************************************************************************)
(* C5: in every reachable state, a byte produced inside an attempt or an   *)
(* except arm is in the client output only if its try has been resolved in *)
(* favour of that arm: the try is no longer queued or being polled, the    *)
(* attempt arm has not failed when its bytes are out, the attempt arm has  *)
(* failed and the except arm has not when the bytes of the except arm are  *)
(* out; so at most one arm contributes bytes.                              *)
(***************************************************************************)
C5_OneArm ==
    \A t \in TryEvents :
        /\ AttemptOutput(t) # <<>> =>
              ~TryPending(t) /\ ~AttemptFails(t) /\ ExceptOutput(t) = <<>>
        /\ ExceptOutput(t) # <<>> =>
              ~TryPending(t) /\ AttemptFails(t) /\ ~ExceptFails(t)
                /\ AttemptOutput(t) = <<>>

\* the except arm of a try contributed while its attempt arm had bytes buffered
C5_Witness ==
    \E t \in TryEvents :
        /\ ExceptOutput(t) # <<>>
        /\ \E k \in 1..Len(t.attempt_events) : t.attempt_events[k].type = "XML"

(***************************************************************************)
(* C6: if the primary of an include fails and an alt is specified, the     *)
(* dispatcher is called exactly once for the primary URL and exactly once  *)
(* for the alt URL; at the root or inside an arm of a try and across the   *)
(* polls of a re-pushed try, no URL is dispatched twice and no alt is      *)
(* dispatched before the request of its primary has answered a             *)
(* non-success status.                                                     *)
(***************************************************************************)
C6_AltOnce ==
    /\ \A h1, h2 \in 1..Len(dispatched) :
          dispatched[h1].request = dispatched[h2].request => h1 = h2
    /\ \A h \in 1..Len(dispatched) :
          dispatched[h].request.attr = "alt" =>
              \E g \in 1..(h - 1) :
                  /\ dispatched[g].request = Url(dispatched[h].request.pos, "src")
                  /\ responses[g].kind = "http"
                  /\ ~is_success(responses[g].status)
    /\ \A e \in AllIncludes :
          (e.alt.some /\ e.alt.val.valid /\ GotFailure(e.src.url)) =>
              /\ Cardinality(Calls(e.src.url)) = 1
              /\ Cardinality(Calls(e.alt.val.url)) = 1

\* the alt of an include in an arm of a try has been dispatched and has
\* failed too, and the try has been polled again after it was pushed back
C6_Witness ==
    \E t \in TryEvents : \E e \in ArmIncludes(t) :
        /\ e.alt.some
        /\ GotFailure(e.src.url)
        /\ GotFailure(e.alt.val.url)
        /\ Done

(***************************************************************************)
(* C7: an include with onerror="continue" and no alt whose request answers *)
(* a non-success status writes nothing, is not the error processing ends   *)
(* with, and leaves the rest alone: when processing returns Ok the output  *)
(* is the content around it, unchanged and in order, and processing does   *)
(* return Ok when nothing else fails.                                      *)
(***************************************************************************)
Dropped(e) == e.continue_on_error /\ ~e.alt.some /\ GotFailure(e.src.url)
TryBytes(t) ==
    IF AttemptFails(t) THEN Processed(t.except_events) ELSE Processed(t.attempt_events)
RECURSIVE Expected(_)
Expected(evs) ==
    IF evs = <<>> THEN <<>>
    ELSE (CASE Head(evs).type = "XML" -> XmlBytes(Head(evs).pos)
            [] Head(evs).type = "Include" -> IncludeBytes(Head(evs))
            [] OTHER -> TryBytes(Head(evs)))
         \o Expected(Tail(evs))

C7_ContinueOnError ==
    \A e \in AllIncludes :
        Dropped(e) =>
            /\ OutputOf({e.pos}) = <<>>
            /\ ~FailedAt({e.pos})
            /\ (Done /\ result.ok) => output = Expected(events)
            /\ (Done /\ faults = 0 /\ \A o \in AllIncludes : ~Fatal(o)) => result.ok

\* processing returned Ok with content written before and after an include
\* that was dropped
C7_Witness ==
    \E e \in RootIncludes :
        /\ Dropped(e) /\ Done /\ result.ok
        /\ \E i, j \in 1..Len(output) : output[i].pos < e.pos /\ e.pos < output[j].pos

(***************************************************************************)
(* C8: a fragment-fatal error of an include that has onerror="continue"    *)
(* (UnexpectedStatus, RequestError from the await or from the dispatch,    *)
(* InvalidRequestUrl from the src or the alt) is suppressed: processing    *)
(* never ends with the error of such an include.                           *)
(***************************************************************************)
C8_ContinueSuppresses ==
    \A e \in AllIncludes : e.continue_on_error => ~FailedAt({e.pos})

(***************************************************************************)
(* C9: a fragment-fatal error raised by an include inside an attempt arm   *)
(* is suppressed when the except arm succeeds: processing never ends with  *)
(* the error of an include of the attempt arm of a try whose except arm    *)
(* has content and no include that does not succeed.                       *)
(***************************************************************************)
C9_ExceptSuppresses ==
    \A t \in TryEvents :
        (t.except_events # <<>> /\ ExceptSucceeds(t)) =>
            ~FailedAt(PositionsOf(t.attempt_events))

(***************************************************************************)
(* C10: for an input with no recognised directive, every XML event is      *)
(* written to the output exactly once and in input order, nothing is       *)
(* queued, nothing is dispatched, and processing returns Ok.               *)
(***************************************************************************)
RECURSIVE Passthrough(_)
Passthrough(toks) ==
    IF toks = <<>> THEN <<>>
    ELSE (IF Head(toks).kind = "Text" THEN XmlBytes(Head(toks).pos) ELSE <<>>)
         \o Passthrough(Tail(toks))
NoDirective == \A k \in 1..Len(input) : input[k].kind \in {"Text", "Eof"}

Directives == {"include", "comment", "remove", "try", "attempt", "except"}
IsTag(tok) == tok.kind \in {"Empty", "Start", "End"}
IsDirective(tok) ==
    /\ IsTag(tok)
    /\ tok.name.ns = namespace /\ tok.name.more = "" /\ tok.name.local \in Directives

\* every event of a vector, those inside the arms of its Try events included
RECURSIVE Flat(_)
Flat(evs) ==
    UNION { IF evs[k].type = "Try"
            THEN {evs[k]} \cup Flat(evs[k].attempt_events) \cup Flat(evs[k].except_events)
            ELSE {evs[k]} : k \in 1..Len(evs) }
\* every event the parser has built and not dropped
Built ==
    Flat(events) \cup Flat(root)
    \cup UNION { Flat(frames[i].attempt_events) \cup Flat(frames[i].except_events) :
                   i \in 1..Len(frames) }
EventsAt(k) == { e \in Built : e.pos = k }
DispatchedAt(k) == { h \in 1..Len(dispatched) : dispatched[h].request.pos = k }

\* token k is read between an open remove tag and its close tag
InRemove(k) ==
    \E j \in 1..(k - 1) :
        /\ IsExactly(input[j], "Start", "remove")
        /\ \A i \in (j + 1)..(k - 1) : ~IsExactly(input[i], "End", "remove")
\* token k is read between the open tag of an include and its close tag
InOpenInclude(k) ==
    \E j \in 1..(k - 1) :
        /\ IsExactly(input[j], "Start", "include") /\ ~InRemove(j)
        /\ \A i \in (j + 1)..(k - 1) :
              ~(IsExactly(input[i], "End", "include") /\ ~InRemove(i))
Swallowed(k) == InRemove(k) \/ InOpenInclude(k)

(***************************************************************************)
(* C11: a tag is an ESI directive only if its qualified name is the        *)
(* configured prefix, a colon and exactly a directive name.  A tag with    *)
(* another prefix, or with the prefix and a name that is not exactly a     *)
(* directive name, is passed through (outside remove and outside an open   *)
(* include it gives a passthrough event), gives no Include event, is no    *)
(* error and dispatches nothing.                                           *)
(***************************************************************************)
C11_NamespaceIsolation ==
    \A k \in 1..Len(input) :
        (IsTag(input[k]) /\ ~IsDirective(input[k])) =>
            /\ DispatchedAt(k) = {}
            /\ \A e \in EventsAt(k) : e.type = "XML"
            /\ ~FailedAt({k})
            /\ ~Swallowed(k) => XML(k) \in Built

(***************************************************************************)
(* C12: comment and remove contribute the empty string.  A self-closing    *)
(* comment tag, a remove tag and every event between an open remove tag    *)
(* and its close tag give no event, no output byte and no dispatch, and    *)
(* are no error (an include inside remove is not dispatched, and one       *)
(* without src is not an error); the text before and after still gives its *)
(* passthrough event.                                                      *)
(***************************************************************************)
Removed(k) ==
    \/ InRemove(k)
    \/ IsExactly(input[k], "Start", "remove")
    \/ IsExactly(input[k], "Empty", "comment")

\* the document holds nothing but text, comments and removes
OnlyRemoved ==
    \A k \in 1..Len(input) : input[k].kind \in {"Text", "Eof"} \/ Removed(k)
\* the bytes of the text among the first k events that is outside remove
RECURSIVE Kept(_)
Kept(k) ==
    IF k = 0 THEN <<>>
    ELSE Kept(k - 1)
         \o (IF input[k].kind = "Text" /\ ~Swallowed(k) THEN XmlBytes(k) ELSE <<>>)

C12_CommentRemove ==
    \A k \in 1..Len(input) :
        /\ Removed(k) =>
              /\ EventsAt(k) = {}
              /\ DispatchedAt(k) = {}
              /\ OutputOf({k}) = <<>>
              /\ ~FailedAt({k})
        /\ (input[k].kind = "Text" /\ ~Swallowed(k)) => XML(k) \in Built
        /\ OnlyRemoved => output = Kept(Len(input))

\* an include without src was read inside remove, and the text before and
\* the text after the remove were written
C12_Witness ==
    /\ Len(input) = 5
    /\ input[1].kind = "Text" /\ input[5].kind = "Text"
    /\ IsExactly(input[2], "Start", "remove") /\ IsExactly(input[4], "End", "remove")
    /\ input[3].kind = "Empty" /\ NameStartsWith(input[3].name, "include")
    /\ ~input[3].attrs.src.some
    /\ output = XmlBytes(1) \o XmlBytes(5)

(***************************************************************************)
(* C13: src is required on include.  When an include tag without src is    *)
(* read outside remove, in self-closing or in open form, at the root or    *)
(* inside an arm of a try, parse_tags returns MissingRequiredParameter for *)
(* that tag at once: nothing is read and the callback is invoked for no    *)
(* event after it.                                                         *)
(***************************************************************************)
IsInclude(tok) ==
    tok.kind \in {"Empty", "Start"} /\ tok.name = Name(namespace, "include")

C13_SrcRequired ==
    \A k \in 1..Len(input) :
        (IsInclude(input[k]) /\ ~input[k].attrs.src.some /\ ~InRemove(k)) =>
            /\ Done
            /\ result = Err(MissingRequiredParameter(k))
            /\ Len(input) = k
            /\ \A j \in 1..Len(events) : events[j].pos < k
            /\ DispatchedAt(k) = {}

\* an include in open form and without src was read inside an arm of a try
C13_Witness ==
    /\ Done
    /\ depth > 0 /\ Len(frames) > 1
    /\ input[Len(input)].kind = "Start"
    /\ IsInclude(input[Len(input)])
    /\ result.err.kind = "MissingRequiredParameter"

(***************************************************************************)
(* C14: the Include event carries the attributes of its tag unchanged.     *)
(* Every include tag with src read outside remove gives one Include event, *)
(* whose src is the value of src, whose alt is present iff the tag has an  *)
(* alt attribute, and then is its value, and whose continue_on_error is    *)
(* true iff the tag has an onerror attribute whose value is exactly        *)
(* continue.                                                               *)
(***************************************************************************)
C14_IncludeAttributes ==
    /\ \A e \in Built :
          e.type = "Include" =>
              LET tok == input[e.pos] IN
              /\ tok.attrs.src.some /\ e.src = tok.attrs.src.val
              /\ e.alt = tok.attrs.alt
              /\ e.continue_on_error
                   <=> (tok.attrs.onerror.some /\ tok.attrs.onerror.val = "continue")
    /\ \A k \in 1..Len(input) :
          (IsInclude(input[k]) /\ input[k].attrs.src.some /\ ~InRemove(k)) =>
              \E e \in EventsAt(k) : e.type = "Include" /\ EventsAt(k) = {e}

\* an include whose onerror is not continue gave an event with
\* continue_on_error false, and an include with alt and onerror="continue"
\* gave an event with both
C14_Witness ==
    \E e, f \in Built :
        /\ e.type = "Include" /\ f.type = "Include"
        /\ input[e.pos].attrs.onerror.some /\ ~e.continue_on_error
        /\ f.alt.some /\ f.continue_on_error

(***************************************************************************)
(* The events of a balanced document, read off its tags                    *)
(***************************************************************************)
\* the close tag that matches an open tag of the directive local read
\* before k, n further open tags being unmatched; 0 if it is not yet read
RECURSIVE Close(_, _, _)
Close(k, local, n) ==
    IF k > Len(input) THEN 0
    ELSE IF IsExactly(input[k], "Start", local) THEN Close(k + 1, local, n + 1)
    ELSE IF IsExactly(input[k], "End", local)
    THEN (IF n = 0 THEN k ELSE Close(k + 1, local, n - 1))
    ELSE Close(k + 1, local, n)

RECURSIVE Items(_, _, _)
RECURSIVE Arm(_, _, _)
RECURSIVE Stray(_, _)
\* the events of the content input[i..j], at the root (top) or in an arm; at
\* the root a try that is not closed yet gives nothing
Items(i, j, top) ==
    IF i > j THEN <<>>
    ELSE CASE input[i].kind = "Text" -> <<XML(i)>> \o Items(i + 1, j, top)
           [] IsExactly(input[i], "Empty", "include") ->
                <<IncludeEvent(input[i].attrs.src.val, input[i].attrs.alt,
                               input[i].attrs.onerror = Some("continue"), i)>>
                \o Items(i + 1, j, top)
           [] IsExactly(input[i], "Start", "try") ->
                LET m == Close(i + 1, "try", 0) IN
                IF m = 0 THEN <<>>
                ELSE (IF top THEN <<>> ELSE Stray(i + 1, m - 1))
                     \o <<TryEvent(Arm(i + 1, m - 1, "attempt"),
                                   Arm(i + 1, m - 1, "except"), m)>>
                     \o Items(m + 1, j, top)
           [] OTHER -> Items(i + 1, j, top)
\* the events of the arm local of the try whose tags enclose input[i..j]
Arm(i, j, local) ==
    IF i > j THEN <<>>
    ELSE IF input[i].kind = "Start"
    THEN LET c == Close(i + 1, input[i].name.local, 0) IN
         (IF IsExactly(input[i], "Start", local) THEN Items(i + 1, c - 1, FALSE)
          ELSE <<>>)
         \o Arm(c + 1, j, local)
    ELSE Arm(i + 1, j, local)
\* the text directly inside the try whose tags enclose input[i..j]
Stray(i, j) ==
    IF i > j THEN <<>>
    ELSE IF input[i].kind = "Start"
    THEN Stray(Close(i + 1, input[i].name.local, 0) + 1, j)
    ELSE (IF input[i].kind = "Text" THEN <<XML(i)>> ELSE <<>>) \o Stray(i + 1, j)

\* the number of try blocks open before token k is read
RECURSIVE Level(_)
Level(k) ==
    IF k <= 1 THEN 0
    ELSE Level(k - 1)
         + (IF IsExactly(input[k - 1], "Start", "try") THEN 1 ELSE 0)
         - (IF IsExactly(input[k - 1], "End", "try") THEN 1 ELSE 0)

(***************************************************************************)
(* C15: while the parser is inside a try the callback is invoked for no    *)
(* include and no passthrough event; each top-level try causes exactly one *)
(* invocation, with a Try event, when its closing tag is read, and the     *)
(* attempt_events and except_events of that event hold the events of the   *)
(* respective arm in document order, an absent arm giving an empty list.   *)
(* So the events the callback has been invoked with are at any moment the  *)
(* root-level items of the document read so far, closed try blocks only.   *)
(***************************************************************************)
C15_TopLevelTry ==
    /\ events = Items(1, Len(input), TRUE)
    /\ \A j \in 1..Len(events) :
          /\ Level(events[j].pos) = (IF events[j].type = "Try" THEN 1 ELSE 0)
          /\ events[j].type = "Try" => IsExactly(input[events[j].pos], "End", "try")

\* a try with text and an include in its attempt arm and no except arm has
\* been delivered, after text and an include were read inside it
C15_Witness ==
    \E j \in 1..Len(events) :
        /\ events[j].type = "Try"
        /\ Len(events[j].attempt_events) = 2
        /\ events[j].attempt_events[1].type = "XML"
        /\ events[j].attempt_events[2].type = "Include"
        /\ events[j].except_events = <<>>
        /\ \A i \in 1..Len(input) : ~IsExactly(input[i], "Start", "except")

\* every event list of a vector: the vector and the arms of its Try events
RECURSIVE ListsIn(_)
ListsIn(evs) ==
    {evs} \cup UNION { IF evs[k].type = "Try"
                       THEN ListsIn(evs[k].attempt_events)
                            \cup ListsIn(evs[k].except_events)
                       ELSE {} : k \in 1..Len(evs) }
\* the event lists of the arms, open or closed, the parser has built
ArmLists ==
    UNION { ListsIn(events[k].attempt_events) \cup ListsIn(events[k].except_events) :
              k \in { j \in 1..Len(events) : events[j].type = "Try" } }
    \cup UNION { ListsIn(frames[i].attempt_events) \cup ListsIn(frames[i].except_events) :
                   i \in 1..Len(frames) }
\* the nested try blocks read up to their close tag: <<open tag, close tag>>
NestedTries ==
    { <<i, Close(i + 1, "try", 0)>> :
        i \in { j \in 1..Len(input) :
                  /\ IsExactly(input[j], "Start", "try")
                  /\ Level(j) > 0
                  /\ Close(j + 1, "try", 0) # 0 } }

(***************************************************************************)
(* C16: a try nested inside an attempt or except arm is never passed to    *)
(* the callback; it is one Try event of the enclosing arm's event list,    *)
(* after the arm's earlier events and after the passthrough found directly *)
(* inside the nested try but outside its arms, and before the arm's later  *)
(* events; its attempt_events and except_events are exactly the events of  *)
(* its own arms.                                                           *)
(***************************************************************************)
C16_NestedTry ==
    \A t \in NestedTries :
        LET i == t[1]
            m == t[2]
            stray == Stray(i + 1, m - 1)
        IN /\ \A j \in 1..Len(events) : events[j].pos # m
           /\ \E L \in ArmLists :
                 \E j \in 1..Len(L) :
                    /\ L[j] = TryEvent(Arm(i + 1, m - 1, "attempt"),
                                       Arm(i + 1, m - 1, "except"), m)
                    /\ \A l \in 1..Len(L) : l # j => L[l].pos # m
                    /\ \A l \in 1..Len(L) :
                          (L[l].pos < i <=> l < j - Len(stray))
                          /\ (L[l].pos > m <=> l > j)
                    /\ j > Len(stray)
                    /\ SubSeq(L, j - Len(stray), j - 1) = stray
                    /\ \A l \in 1..(Len(L) - 1) : L[l].pos < L[l + 1].pos

\* an arm holds an include, then the passthrough found directly inside a
\* nested try, then the nested try with an include in its attempt arm and no
\* except arm, then later passthrough
C16_Witness ==
    \E L \in ArmLists :
        \E t \in NestedTries :
            /\ Len(L) = 4
            /\ L[1].type = "Include" /\ L[1].pos < t[1]
            /\ <<L[2]>> = Stray(t[1] + 1, t[2] - 1)
            /\ L[3].type = "Try" /\ L[3].pos = t[2]
            /\ Len(L[3].attempt_events) = 1
            /\ L[3].attempt_events[1].type = "Include"
            /\ L[3].except_events = <<>>
            /\ L[4].type = "XML" /\ L[4].pos > t[2]

\* how many events of token k a vector holds, the arms of its Try events
\* included
RECURSIVE OccursIn(_, _)
OccursIn(evs, k) ==
    IF evs = <<>> THEN 0
    ELSE (IF Head(evs).pos = k THEN 1 ELSE 0)
         + (IF Head(evs).type = "Try"
            THEN OccursIn(Head(evs).attempt_events, k)
                 + OccursIn(Head(evs).except_events, k)
            ELSE 0)
         + OccursIn(Tail(evs), k)
RECURSIVE OccursInFrames(_, _)
OccursInFrames(fs, k) ==
    IF fs = <<>> THEN 0
    ELSE OccursIn(Head(fs).attempt_events, k) + OccursIn(Head(fs).except_events, k)
         + OccursInFrames(Tail(fs), k)
\* how many events the parser has built of token k
BuiltAt(k) == OccursIn(events, k) + OccursIn(root, k) + OccursInFrames(frames, k)

(***************************************************************************)
(* C17: an include written in open/close form gives exactly one Include    *)
(* event, at its open tag, with the fields the self-closing form gives;    *)
(* every event read after the open tag and up to the closing tag is        *)
(* ignored: it gives no event, no request and no error; a closing include  *)
(* tag read while no open-form include is pending makes parse_tags return  *)
(* UnexpectedClosingTag.  (Tags inside remove are left aside.)             *)
(***************************************************************************)
C17_OpenInclude ==
    \A k \in 1..Len(input) :
        /\ (IsExactly(input[k], "Start", "include") /\ input[k].attrs.src.some
            /\ ~Swallowed(k)) =>
               /\ EventsAt(k) = {parse_include([input[k] EXCEPT !.kind = "Empty"]).val}
               /\ BuiltAt(k) = 1
        /\ (InOpenInclude(k) /\ ~InRemove(k)
            /\ ~IsExactly(input[k], "End", "include")) =>
               /\ EventsAt(k) = {}
               /\ DispatchedAt(k) = {}
               /\ ~FailedAt({k})
        /\ (IsExactly(input[k], "End", "include") /\ ~Swallowed(k)) =>
               /\ Done
               /\ result = Err(UnexpectedClosingTag(k))
               /\ Len(input) = k

(***************************************************************************)
(* C18: a parse error reported by the XML reader is document-fatal:        *)
(* parsing stops at that event, the callback is invoked for no later       *)
(* event, and processing returns the XML parse error to the caller.        *)
(***************************************************************************)
C18_ReaderErrorFatal ==
    \A k \in 1..Len(input) :
        input[k].kind = "Error" =>
            /\ Done
            /\ result = Err(XMLError(k))
            /\ Len(input) = k
            /\ \A j \in 1..Len(events) : events[j].pos < k

(***************************************************************************)
(* C19: a failure of the output writer while writing a queued Raw element, *)
(* a fragment response body or the buffer of a resolved try branch is      *)
(* propagated to the caller as an error value: process_document returns,   *)
(* it does not unwind from the write.                                      *)
(***************************************************************************)
C19_WriterErrorReturned ==
    pc = "panic" => result.panic \notin {"Raw", "Include", "Try"}

\* the handles the fragments of a queue wait for
HandlesIn(queue) ==
    { queue[k].fragment.pending_request :
        k \in { j \in 1..Len(queue) : queue[j].type = "Include" } }
\* the handles of every fragment that is queued, at the root or in a task
QueuedHandles ==
    HandlesIn(elements)
    \cup UNION { HandlesIn(elements[k].attempt_task.queue)
                 \cup HandlesIn(elements[k].except_task.queue) :
                   k \in { j \in 1..Len(elements) : elements[j].type = "Try" } }
    \cup (IF cur.type = "Try"
          THEN HandlesIn(cur.attempt_task.queue) \cup HandlesIn(cur.except_task.queue)
          ELSE {})
\* the calls the dispatcher answered with None
Skipped == { h \in 1..Len(dispatched) : dispatched[h].answer = "none" }

(***************************************************************************)
(* C20: when the dispatcher returns None for a request (the primary of a   *)
(* root or try-arm include, or an alt) the fragment is skipped silently:   *)
(* no element is queued for it, no handle is awaited, the include gives no *)
(* output and no further request, processing never ends with an error of   *)
(* that include, also when continue_on_error is false, and when processing *)
(* returns Ok the output is the surrounding content in order.              *)
(***************************************************************************)
C20_NoneSkipped ==
    \A h \in Skipped :
        LET u == dispatched[h].request IN
        /\ h \notin QueuedHandles
        /\ responses[h] = NoHandle
        /\ \A k \in 1..Len(arrivals) : arrivals[k] # h
        /\ OutputOf({u.pos}) = <<>>
        /\ \A h2 \in (h + 1)..Len(dispatched) : dispatched[h2].request.pos # u.pos
        /\ ~FailedAt({u.pos})
        /\ (Done /\ result.ok) => output = Expected(events)

\* processing returned Ok with content written before and after a root
\* include without onerror="continue" whose primary request was answered None
C20_Witness ==
    \E e \in RootIncludes :
        /\ ~e.continue_on_error
        /\ \E h \in Skipped : dispatched[h].request = e.src.url
        /\ Done /\ result.ok
        /\ \E i, j \in 1..Len(output) : output[i].pos < e.pos /\ e.pos < output[j].pos

\* the document position a queued element stands for
ElementPos(el) ==
    CASE el.type = "Raw" -> el.bytes[1].pos
      [] el.type = "Include" -> el.fragment.request.pos
      [] OTHER -> el.pos
\* this step invokes the callback with a root-level passthrough event
XmlDelivered ==
    /\ Len(events') = Len(events) + 1
    /\ events'[Len(events')].type = "XML"

(***************************************************************************)
(* C24: during parsing a root-level passthrough event is written straight  *)
(* to the output if and only if no element is queued at that moment;       *)
(* otherwise it is appended at the back of the queue as Raw.  A queued Raw *)
(* element is written only after every element queued before it has left  *)
(* the queue: while it is queued none of its bytes and no byte of a later  *)
(* document position is in the output, and the elements before it in the   *)
(* queue stand for earlier positions.  The output follows document order.  *)
(***************************************************************************)
C24_PassthroughOrder ==
    /\ [](/\ \A i, j \in 1..Len(output) : i < j => output[i].pos <= output[j].pos
          /\ \A k \in 1..Len(elements) :
                elements[k].type = "Raw" =>
                   /\ \A i \in 1..Len(output) : output[i].pos < ElementPos(elements[k])
                   /\ \A l \in 1..(k - 1) :
                         ElementPos(elements[l]) < ElementPos(elements[k]))
    /\ [][XmlDelivered =>
            LET bytes == XmlBytes(events'[Len(events')].pos) IN
            IF elements = <<>>
            THEN output' = output \o bytes /\ elements' = <<>>
            ELSE output' = output /\ elements' = Append(elements, Raw(bytes))]_vars

\* processing returned Ok with the output of a passthrough event written
\* straight through, the body of an include, and a passthrough event that was
\* queued behind the include
C24_Witness ==
    /\ Done /\ result.ok
    /\ Len(output) = 3
    /\ output[1].k = "xml" /\ output[2].k = "body" /\ output[3].k = "xml"
    /\ Len(events) = 3

\* the events of the root before document position p
EventsBefore(p) == LET Earlier(e) == e.pos < p IN SelectSeq(events, Earlier)
\* the handle of call h has been awaited
Awaited(h) == responses[h].kind \in {"http", "senderr"}

(***************************************************************************)
(* C25: a root-level include whose response is non-success, with no alt    *)
(* and continue_on_error false, ends processing with UnexpectedStatus       *)
(* carrying the URL and the status of that request; the bytes written      *)
(* before it stay in the output, and no element queued after it is written *)
(* or awaited.                                                             *)
(***************************************************************************)
C25_RootFailure ==
    \A e \in RootIncludes :
        (~e.alt.some /\ ~e.continue_on_error /\ GotFailure(e.src.url)) =>
            /\ Done
            /\ result = Err(UnexpectedStatus(e.src.url, StatusOf(e.src.url)))
            /\ output = Expected(EventsBefore(e.pos))
            /\ \A h \in 1..Len(dispatched) :
                  dispatched[h].request.pos > e.pos => ~Awaited(h)

\* processing ended with the failure of a root include after content was
\* written, with a passthrough event still queued behind it
C25_Witness ==
    \E e \in RootIncludes :
        /\ ~e.alt.some /\ ~e.continue_on_error /\ GotFailure(e.src.url)
        /\ Done
        /\ output # <<>>
        /\ \E k \in 1..Len(elements) :
              elements[k].type = "Raw" /\ ElementPos(elements[k]) > e.pos

\* call h dispatched an alt whose handle has not been awaited yet
AltPending(h) ==
    /\ dispatched[h].request.attr = "alt"
    /\ dispatched[h].answer = "some"
    /\ ~Awaited(h)
\* the element at the front of a queue waits for handle h
HeadWaitsFor(queue, h) ==
    /\ queue # <<>>
    /\ Head(queue).type = "Include"
    /\ Head(queue).fragment.pending_request = h
\* the element of handle h is at the front of the root queue or of the queue
\* of a task of the try at the front of the root queue or being polled
AtFront(h) ==
    \/ HeadWaitsFor(elements, h)
    \/ /\ elements # <<>>
       /\ Head(elements).type = "Try"
       /\ \/ HeadWaitsFor(Head(elements).attempt_task.queue, h)
          \/ HeadWaitsFor(Head(elements).except_task.queue, h)
    \/ /\ cur.type = "Try"
       /\ \/ HeadWaitsFor(cur.attempt_task.queue, h)
          \/ HeadWaitsFor(cur.except_task.queue, h)
\* this step awaits the handle of call h
Awaits(h) == ~Awaited(h) /\ responses'[h].kind \in {"http", "senderr"}

(***************************************************************************)
(* C26: when a primary fails and its alt is dispatched, the alt element is *)
(* put at the front of the queue the primary came from, and it is the next *)
(* element awaited: while the handle of an alt has not been awaited, its   *)
(* element is at the front of its queue and no other handle is awaited.    *)
(* The body of the alt, if success, is written at the document position of *)
(* the include, after all earlier content and before the bytes of every    *)
(* element that followed the include.                                      *)
(***************************************************************************)
C26_AltFront ==
    /\ [](\A h \in 1..Len(dispatched) :
             (AltPending(h) /\ ~Done) => AtFront(h))
    /\ [][\A h, h2 \in 1..Len(dispatched) :
             (AltPending(h) /\ Awaits(h2)) => h2 = h]_vars
    /\ [](\A i \in 1..Len(output) :
             (BodyAt(i) /\ output[i].attr = "alt") =>
                /\ \A j \in 1..(i - 1) : output[j].pos < output[i].pos
                /\ \A j \in (i + 1)..Len(output) : output[j].pos > output[i].pos)

\* the fragments a queue holds
FragmentsIn(queue) ==
    { queue[k].fragment : k \in { j \in 1..Len(queue) : queue[j].type = "Include" } }
\* every fragment that is queued, at the root or in a task
QueuedFragments ==
    FragmentsIn(elements)
    \cup UNION { FragmentsIn(elements[k].attempt_task.queue)
                 \cup FragmentsIn(elements[k].except_task.queue) :
                   k \in { j \in 1..Len(elements) : elements[j].type = "Try" } }
    \cup (IF cur.type = "Try"
          THEN FragmentsIn(cur.attempt_task.queue) \cup FragmentsIn(cur.except_task.queue)
          ELSE {})
\* the primary and the alt of the include both got a non-success status
BothFailed(e) == e.alt.some /\ GotFailure(e.src.url) /\ GotFailure(e.alt.val.url)

(***************************************************************************)
(* C27: the element created for an alt has no further alt and inherits     *)
(* continue_on_error from the original include.  If the response of the    *)
(* alt is non-success too, the include is dropped silently when            *)
(* continue_on_error is true (no output, no error of that include), and    *)
(* otherwise the failure carries the URL and the status of the alt, not    *)
(* those of the primary: a root include ends processing with it, and when  *)
(* processing ends with the failure of an include of an arm it is that     *)
(* one.  No third request is dispatched for the include.                   *)
(***************************************************************************)
C27_AltElement ==
    /\ \A f \in QueuedFragments :
          f.request.attr = "alt" =>
             /\ f.alt = None
             /\ \E e \in AllIncludes :
                   e.pos = f.request.pos /\ f.continue_on_error = e.continue_on_error
    /\ \A e \in AllIncludes :
          /\ Cardinality(DispatchedAt(e.pos)) <= 2
          /\ BothFailed(e) =>
               LET failure == UnexpectedStatus(e.alt.val.url, StatusOf(e.alt.val.url)) IN
               /\ OutputOf({e.pos}) = <<>>
               /\ e.continue_on_error => ~FailedAt({e.pos})
               /\ (~e.continue_on_error /\ e \in RootIncludes) =>
                     Done /\ result = Err(failure)
               /\ (~e.continue_on_error /\ FailedAt({e.pos})) => result = Err(failure)

\* processing ended with the failure of the alt of a root include whose
\* primary failed with another status
C27_Witness ==
    \E e \in RootIncludes :
        /\ BothFailed(e) /\ ~e.continue_on_error
        /\ Done
        /\ StatusOf(e.src.url) # StatusOf(e.alt.val.url)
        /\ result.err.status = StatusOf(e.alt.val.url)

(***************************************************************************)
(* C28: when the attempt arm of a try succeeds, the except arm is          *)
(* discarded without any further work on its behalf: once poll_tasks has   *)
(* returned Succeeded for the attempt task, no step of the resolution of   *)
(* that try dispatches a request (in particular no alt of an include of    *)
(* the except arm).                                                        *)
(***************************************************************************)
C28_ExceptDiscarded ==
    [][(cur.type = "Try" /\ cur.attempt_state.state = "Succeeded") =>
          dispatched' = dispatched]_vars

\* this step ends the poll of the except task of the try being polled, and
\* with it the pass of poll_elements over that try
PassEnds == pc = "except" /\ pc' = "poll"
\* this step dispatches the alt of an include and gets a handle for it
AltDispatched ==
    /\ Len(dispatched') = Len(dispatched) + 1
    /\ dispatched'[Len(dispatched')].request.attr = "alt"
    /\ dispatched'[Len(dispatched')].answer = "some"
\* the task has nothing left to do: it failed, or its queue is empty
Finished(task) == task.status.state = "Failed" \/ task.queue = <<>>
\* seq begins with pre
IsPrefix(pre, seq) == Len(pre) <= Len(seq) /\ SubSeq(seq, 1, Len(pre)) = pre

(***************************************************************************)
(* C29: when an arm of a try returns Pending because an alt was            *)
(* dispatched, the try is put back at the front of the enclosing queue,    *)
(* with the bytes each arm has accumulated and with the alt element at the *)
(* front of the queue of the pending arm, and it is resumed on the next    *)
(* poll.  A poll of an arm that has already finished awaits and dispatches *)
(* nothing and leaves its buffer unchanged; the buffer of an arm only      *)
(* grows while its try is polled.  The output of the try is written before *)
(* the bytes of every element that followed it.                            *)
(***************************************************************************)
C29_TryResumed ==
    /\ [][(PassEnds /\ (cur.attempt_state.state = "Pending" \/ AltDispatched)) =>
             /\ elements' # <<>>
             /\ Tail(elements') = elements
             /\ Head(elements').type = "Try"
             /\ Head(elements').pos = cur.pos
             /\ Head(elements').attempt_task = cur.attempt_task
             /\ Head(elements').except_task.output = cur.except_task.output
             /\ AltDispatched =>
                   HeadWaitsFor(Head(elements').except_task.queue, Len(dispatched'))
             /\ output' = output]_vars
    /\ [][(pc = "attempt" /\ AltDispatched) =>
             /\ pc' = "except"
             /\ cur'.attempt_state.state = "Pending"
             /\ cur'.attempt_task.output = cur.attempt_task.output
             /\ HeadWaitsFor(cur'.attempt_task.queue, Len(dispatched'))]_vars
    /\ [][(pc \in {"attempt", "except"} /\ Finished(CurTask) /\ arrivals' = arrivals) =>
             /\ dispatched' = dispatched
             /\ responses' = responses
             /\ pc = "attempt" => cur'.attempt_task = cur.attempt_task
             /\ (pc = "except" /\ cur'.type = "Try") => cur'.except_task = cur.except_task
             /\ (PassEnds /\ elements' # elements) =>
                   Head(elements').except_task = cur.except_task]_vars
    /\ [][(cur.type = "Try" /\ cur'.type = "Try") =>
             /\ IsPrefix(cur.attempt_task.output, cur'.attempt_task.output)
             /\ IsPrefix(cur.except_task.output, cur'.except_task.output)]_vars
    /\ [][(pc = "poll" /\ pc' = "attempt") =>
             /\ cur'.attempt_task = Head(elements).attempt_task
             /\ cur'.except_task = Head(elements).except_task]_vars
    /\ [](\A i, j \in 1..Len(output) : i < j => output[i].pos <= output[j].pos)

\* the branch tasks that exist: those of the try being polled and those of
\* the queued Try elements, each with the position of its try and its arm
BranchTasks ==
    (IF cur.type = "Try"
     THEN {[pos |-> cur.pos, arm |-> "attempt", task |-> cur.attempt_task],
           [pos |-> cur.pos, arm |-> "except", task |-> cur.except_task]}
     ELSE {})
    \cup UNION { {[pos |-> elements[k].pos, arm |-> "attempt",
                   task |-> elements[k].attempt_task],
                  [pos |-> elements[k].pos, arm |-> "except",
                   task |-> elements[k].except_task]} :
                   k \in { j \in 1..Len(elements) : elements[j].type = "Try" } }

(***************************************************************************)
(* C30: Failed is an absorbing status of a branch task.  Once the status   *)
(* of a task is Failed(request, status), the task stays as it is for the   *)
(* rest of the run: same status with the same request and status, same     *)
(* queue, same buffer; and every later poll of that task awaits no handle  *)
(* and dispatches nothing.                                                 *)
(***************************************************************************)
C30_FailedAbsorbing ==
    /\ [][\A x \in BranchTasks :
             x.task.status.state = "Failed" =>
                \A y \in BranchTasks' :
                   (y.pos = x.pos /\ y.arm = x.arm) => y.task = x.task]_vars
    /\ [][(pc \in {"attempt", "except"} /\ CurTask.status.state = "Failed"
           /\ arrivals' = arrivals) =>
             /\ dispatched' = dispatched
             /\ responses' = responses]_vars

\* the attempt task of a try that was put back is polled again after it
\* failed, with bytes in its buffer
C30_Witness ==
    /\ pc = "attempt"
    /\ cur.attempt_task.status.state = "Failed"
    /\ cur.attempt_task.output # <<>>

(***************************************************************************)
(* Functions called on their own.  An attribute value is a sequence of     *)
(* chunks of text; each chunk stands for the characters that decide how    *)
(* the value is un-escaped and parsed.                                     *)
(***************************************************************************)
\* the longest attribute value after its scheme and authority, in chunks
MaxUrl == 3

\* all sequences over S of at most n elements
UpTo(S, n) == UNION {[1..k -> S] : k \in 0..n}

Returns(x) == [kind |-> "value", val |-> x]
Panic(msg) == [kind |-> "panic", msg |-> msg]

\* the first position of c in s, or Len(s) + 1
FirstIndex(s, c) ==
    IF \E i \in DOMAIN s : s[i] = c
    THEN CHOOSE i \in DOMAIN s : s[i] = c /\ \A j \in 1..(i - 1) : s[j] # c
    ELSE Len(s) + 1

\* the beginning of an absolute URL: a scheme with a host, a scheme with
\* none, or nothing
UrlHeads == {<<>>, <<"http://h/">>, <<"mailto:a">>}
\* "&amp;" and "&#47;" are the escaped forms of "&" and "/"; "&bad" is not
\* an entity
UrlChunks == {"/", "p", "?q", "&amp;", "&#47;", "&bad"}
UrlValues == {h \o b : h \in UrlHeads, b \in UpTo(UrlChunks, MaxUrl)}

\* quick_xml::escape::unescape
unescape(url) ==
    IF \E i \in DOMAIN url : url[i] = "&bad"
    THEN Err("EscapeError")
    ELSE Ok([i \in DOMAIN url |->
                CASE url[i] = "&amp;" -> "&"
                  [] url[i] = "&#47;" -> "/"
                  [] OTHER -> url[i]])

\* the '#' of a literal "&#47;" begins the fragment of a URL
RECURSIVE Characters(_)
Characters(s) ==
    IF s = <<>> THEN <<>>
    ELSE (IF Head(s) = "&#47;" THEN <<"&", "#47;">> ELSE <<Head(s)>>)
             \o Characters(Tail(s))

\* the URL of a scheme and what follows it: the query begins at q, the
\* fragment at f
UrlOf(head, e, q, f) ==
    Ok([scheme |-> IF head = "mailto:a" THEN "mailto" ELSE "http",
        host |-> CASE head = "http://h/" -> Some("h")
                   [] head = "http://0.0.0.0" -> Some("0.0.0.0")
                   [] OTHER -> None,
        path |-> (CASE head = "http://h/" -> <<"/">>
                    [] head = "mailto:a" -> <<"a">>
                    [] OTHER -> <<>>) \o SubSeq(e, 1, q - 1),
        query |-> SubSeq(e, q, f - 1),
        fragment |-> SubSeq(e, f, Len(e))])

UrlParts(head, e, f) == UrlOf(head, e, FirstIndex(SubSeq(e, 1, f - 1), "?q"), f)

\* Url::parse: a URL needs a scheme; what follows it is split into path,
\* query and fragment
UrlParse(s) ==
    IF s = <<>> \/ Head(s) \notin {"http://h/", "http://0.0.0.0", "mailto:a"}
    THEN Err("RelativeUrlWithoutBase")
    ELSE UrlParts(Head(s), Characters(Tail(s)),
                  FirstIndex(Characters(Tail(s)), "#47;"))

\* the URL of the request being processed
TemplateUrl ==
    [scheme |-> "http", host |-> Some("origin"), path |-> <<"/", "doc">>,
     query |-> <<"?q0">>, fragment |-> <<>>]
TemplateRequest == [url |-> TemplateUrl, host_header |-> "origin"]

starts_with_slash(url) == url # <<>> /\ Head(url) = "/"

\* lines 294-299: the Host header is the host of the URL
set_host_header(u) ==
    IF ~u.host.some THEN Panic("no host")
    ELSE Returns(Ok([url |-> u, host_header |-> u.host.val]))

\* lines 273-292: the URL of the request, from the parsed value
set_url(request, escaped_url, parsed) ==
    IF ~parsed.ok THEN Returns(Err(InvalidRequestUrl(escaped_url)))
    ELSE set_host_header(IF starts_with_slash(escaped_url)
                         THEN [request.url EXCEPT !.path = parsed.val.path,
                                                  !.query = parsed.val.query]
                         ELSE parsed.val)

\* lines 263-292: the un-escaped value, parsed
parse_escaped_url(request, unescaped) ==
    IF ~unescaped.ok THEN Returns(Err(InvalidRequestUrl(unescaped.err)))
    ELSE set_url(request, unescaped.val,
                 UrlParse(IF starts_with_slash(unescaped.val)
                          THEN <<"http://0.0.0.0">> \o unescaped.val
                          ELSE unescaped.val))

\* build_fragment_request on the text of the attribute
build_fragment_request_from(request, url, is_escaped) ==
    parse_escaped_url(request, IF is_escaped THEN unescape(url) ELSE Ok(url))

BuildCalls ==
    {[fn |-> "build_fragment_request", request |-> TemplateRequest,
      url |-> v, is_escaped |-> b] : v \in UrlValues, b \in BOOLEAN}

CallBuildFragmentRequest ==
    /\ call.fn = "build_fragment_request"
    /\ returned = NotReturned
    /\ returned' = build_fragment_request_from(call.request, call.url,
                                               call.is_escaped)
    /\ UNCHANGED <<processor, call>>

(***************************************************************************)
(* symbols.rs: the expressions of an attribute.  A string is a sequence of *)
(* characters; a run of letters that spells a name the code knows is one   *)
(* element ("rand", "HTTP_HOST"), "a" and "V" are any other lower-case and *)
(* upper-case letter.                                                      *)
(***************************************************************************)
\* the longest attribute string, in characters
MaxText == 4

Lower == {"a", "rand", "dollar"}
Upper == {"V", "HTTP_HOST", "HTTP_ACCEPT_LANGUAGE", "HTTP_REFERER",
          "HTTP_USER_AGENT", "HTTP_COOKIE", "QUERY_STRING", "REMOTE_ADDR",
          "REQUEST_METHOD", "REQUEST_PATH"}
Whitespace == {" "}

\* IResult
PErr == [ok |-> FALSE]
POk(rest, val) == [ok |-> TRUE, rest |-> rest, val |-> val]

Take(s, n) == SubSeq(s, 1, n)
Drop(s, n) == SubSeq(s, n + 1, Len(s))
SplitAt(s, n) == POk(Drop(s, n), Take(s, n))
\* take_while: the length of the longest prefix of s inside S
Span(s, S) ==
    CHOOSE n \in 0..Len(s) :
        (\A i \in 1..n : s[i] \in S) /\ (n < Len(s) => s[n + 1] \notin S)
\* take_till: the length of the longest prefix of s outside Stop
Till(s, Stop) ==
    CHOOSE n \in 0..Len(s) :
        (\A i \in 1..n : s[i] \notin Stop) /\ (n < Len(s) => s[n + 1] \in Stop)
multispace0(s) == Drop(s, Span(s, Whitespace))

\* the combinators of nom, on the result of the parser they wrap
take_while1(r) == IF r.val # <<>> THEN r ELSE PErr
alt(r, other) == IF r.ok THEN r ELSE other
opt(r, s) == IF r.ok THEN POk(r.rest, Some(r.val)) ELSE POk(s, None)
\* terminated(parser, char(c))
terminated(r, c) ==
    IF r.ok /\ r.rest # <<>> /\ Head(r.rest) = c THEN POk(Tail(r.rest), r.val)
    ELSE PErr

\* enum Symbol
SymbolText(t) == [type |-> "Text", text |-> IF t = <<>> THEN None ELSE Some(t)]
SymbolFunction(name, args) == [type |-> "Function", name |-> name, args |-> args]
SymbolVariable(name, key, default) ==
    [type |-> "Variable", name |-> name, key |-> key, default |-> default]

parse_fn_name(s) ==
    IF s # <<>> /\ Head(s) = "$"
    THEN take_while1(SplitAt(Tail(s), Span(Tail(s), Lower)))
    ELSE PErr

\* delimited(char('\''), parse_single_quoted_ascii, char('\''))
parse_single_quoted(s) ==
    IF s # <<>> /\ Head(s) = "'"
    THEN terminated(SplitAt(Tail(s), Till(Tail(s), {"'"})), "'")
    ELSE PErr

parse_not_quoted_dollar_or_brackets(s) ==
    SplitAt(s, Till(s, {"$", "'", "(", ")", "{", "}", ","}))

parse_not_space_quoted_dollar_or_brackets(s) ==
    SplitAt(s, Till(s, Whitespace \cup {"$", "'", "(", ")", "{", "}", ","}))

parse_not_dollar_or_curlies(s) ==
    SplitAt(s, Till(s, {"$", "{", "}", ",", "\""}))

parse_text(s) ==
    alt(parse_single_quoted(s), parse_not_quoted_dollar_or_brackets(s))

parse_fn_text(s) ==
    alt(parse_single_quoted(s), parse_not_space_quoted_dollar_or_brackets(s))

parse_var_key(s) ==
    alt(parse_single_quoted(s), parse_not_dollar_or_curlies(s))

RECURSIVE parse_fn_nested_argument(_)

\* opt(delimited(char('{'), parse_var_key, char('}')))
parse_var_name_key(s) ==
    opt(IF s # <<>> /\ Head(s) = "{"
        THEN terminated(parse_var_key(Tail(s)), "}")
        ELSE PErr, s)

\* opt(preceded(char('|'), parse_fn_nested_argument))
parse_var_name_default(s) ==
    opt(IF s # <<>> /\ Head(s) = "|"
        THEN parse_fn_nested_argument(Tail(s))
        ELSE PErr, s)

\* the tuple of parse_var_name: the name, the key, the default
var_name_tuple(name, key, default) ==
    POk(default.rest,
        [name |-> name.val, key |-> key.val, default |-> default.val])

var_name_and_key(name, key) ==
    var_name_tuple(name, key, parse_var_name_default(key.rest))

parse_var_name(s) ==
    IF Span(s, Upper) = 0 THEN PErr
    ELSE var_name_and_key(SplitAt(s, Span(s, Upper)),
                          parse_var_name_key(Drop(s, Span(s, Upper))))

variable_of(r) ==
    IF r.ok
    THEN POk(r.rest, SymbolVariable(r.val.name, r.val.key, r.val.default))
    ELSE PErr

parse_variable(s) ==
    IF Len(s) >= 2 /\ s[1] = "$" /\ s[2] = "("
    THEN variable_of(terminated(parse_var_name(Drop(s, 2)), ")"))
    ELSE PErr

\* separated_list0 after its first element: a separator, then an element
RECURSIVE separated_list0(_, _)
list_element(i, res, e) ==
    IF ~e.ok THEN POk(i, res)
    ELSE separated_list0(e.rest, Append(res, e.val))

list_separator(i, res, a) ==
    IF a = <<>> \/ Head(a) # "," THEN POk(i, res)
    ELSE list_element(i, res, parse_fn_nested_argument(multispace0(Tail(a))))

separated_list0(i, res) == list_separator(i, res, multispace0(i))

list_from(s, first) ==
    IF first.ok THEN separated_list0(first.rest, <<first.val>>)
    ELSE POk(s, <<>>)

\* a single empty text is no argument
without_empty_text(parsed) ==
    IF Len(parsed.val) = 1 /\ parsed.val[1].type = "Text"
       /\ ~parsed.val[1].text.some
    THEN POk(parsed.rest, <<>>)
    ELSE parsed

parse_fn_argument(s) ==
    without_empty_text(list_from(s, parse_fn_nested_argument(s)))

function_of(nm, args) ==
    IF args.ok /\ multispace0(args.rest) # <<>> /\ Head(multispace0(args.rest)) = ")"
    THEN POk(Tail(multispace0(args.rest)), SymbolFunction(nm.val, args.val))
    ELSE PErr

function_arguments(nm) ==
    IF ~nm.ok THEN PErr
    ELSE IF nm.rest = <<>> \/ Head(nm.rest) # "(" THEN PErr
    ELSE function_of(nm, parse_fn_argument(multispace0(Tail(nm.rest))))

parse_function(s) == function_arguments(parse_fn_name(s))

text_of(r) == POk(r.rest, SymbolText(r.val))

parse_fn_nested_argument(s) ==
    alt(parse_function(s), alt(parse_variable(s), text_of(parse_fn_text(s))))

parse_symbol(s) ==
    alt(parse_function(s), alt(parse_variable(s), text_of(parse_text(s))))

RECURSIVE tokenize_symbols_from(_, _)
push_token(remaining_input, tokens, r) ==
    IF ~r.ok THEN PErr
    ELSE IF r.rest = remaining_input
         THEN POk(remaining_input, Append(tokens, r.val))
         ELSE tokenize_symbols_from(r.rest, Append(tokens, r.val))

tokenize_symbols_from(remaining_input, tokens) ==
    IF remaining_input = <<>> THEN POk(remaining_input, tokens)
    ELSE push_token(remaining_input, tokens, parse_symbol(remaining_input))

tokenize_symbols(input_str) == tokenize_symbols_from(input_str, <<>>)

\* enum EValue, and the abort of the evaluation
Str(s) == [t |-> "Str", s |-> s]
List(items) == [t |-> "List", items |-> items]
Dict(pairs) == [t |-> "Dict", pairs |-> pairs]
Aborted == [t |-> "panic"]

as_str(v) == IF v.t = "Str" THEN v.s ELSE <<>>

is_empty(v) ==
    CASE v.t = "Dict" -> v.pairs = <<>>
      [] v.t = "List" -> v.items = <<>>
      [] v.t = "Str" -> v.s = <<>>

RECURSIVE handle_symbol(_, _)

\* of the functions, the strings here can spell dollar and rand; the number
\* rand draws is one element
apply_fn(name, processed_args) ==
    IF \E i \in DOMAIN processed_args : processed_args[i].t = "panic"
    THEN Aborted
    ELSE CASE name = <<"dollar">> -> Str(<<"$">>)
           [] name = <<"rand">> ->
                IF processed_args = <<>> THEN Aborted ELSE Str(<<"0..n">>)
           [] OTHER -> Str(<<"unknown_function">>)

resolve_fn(req, name, args) ==
    apply_fn(name, [i \in DOMAIN args |-> handle_symbol(req, args[i])])

value_or_default(value, req, default) ==
    IF value.some THEN value.val
    ELSE IF default.some THEN handle_symbol(req, default.val)
    ELSE Str(<<>>)

\* Option<&str>::map(EValue::from)
map_str(o) == IF o.some THEN Some(Str(o.val)) ELSE None
unwrap_or_default(o) == IF o.some THEN o.val ELSE <<>>

header_value(req, header_name, default) ==
    value_or_default(map_str(req.headers[header_name]), req, default)

\* the key browser asks the device detection of the platform; the keys
\* here are others
var_http_user_agent(req, key, default) == header_value(req, "User-Agent", default)

\* the name=value pairs of a Cookie header or of a query string
RECURSIVE Pairs(_)
Pairs(chunks) ==
    IF chunks = <<>> THEN <<>>
    ELSE (IF Head(chunks).pair.some THEN <<Head(chunks).pair.val>> ELSE <<>>)
             \o Pairs(Tail(chunks))

\* the value of the first pair whose name is key
Find(pairs, key) ==
    IF \E i \in DOMAIN pairs : pairs[i].k = key
    THEN Some(pairs[CHOOSE i \in DOMAIN pairs :
                      pairs[i].k = key /\ \A j \in 1..(i - 1) : pairs[j].k # key].v)
    ELSE None

var_http_cookie(req, key, default) ==
    IF ~key.some
    THEN value_or_default(
             Some(Dict(Pairs(unwrap_or_default(req.headers["Cookie"])))),
             req, default)
    ELSE value_or_default(
             map_str(Find(Pairs(unwrap_or_default(req.headers["Cookie"])), key.val)),
             req, default)

\* and_then(|v| if v.is_empty() { None } else { Some(v) })
non_empty(v) == IF v.some /\ is_empty(v.val) THEN None ELSE v

var_query_string(req, key, default) ==
    value_or_default(
        non_empty(IF ~key.some
                  THEN Some(Dict(Pairs(unwrap_or_default(req.url.query))))
                  ELSE map_str(Find(Pairs(unwrap_or_default(req.url.query)), key.val))),
        req, default)

resolve_var(req, name, key, default) ==
    CASE name = <<"HTTP_ACCEPT_LANGUAGE">> ->
            header_value(req, "Accept-Language", default)
      [] name = <<"HTTP_COOKIE">> -> var_http_cookie(req, key, default)
      [] name = <<"HTTP_HOST">> -> header_value(req, "Host", default)
      [] name = <<"HTTP_REFERER">> -> header_value(req, "Referer", default)
      [] name = <<"HTTP_USER_AGENT">> -> var_http_user_agent(req, key, default)
      [] name = <<"QUERY_STRING">> -> var_query_string(req, key, default)
      [] name = <<"REMOTE_ADDR">> -> Str(unwrap_or_default(req.client_ip))
      [] name = <<"REQUEST_METHOD">> -> Str(req.method)
      [] name = <<"REQUEST_PATH">> -> Str(req.url.path)
      [] OTHER ->
            Str(IF key.some
                THEN <<"$", "(">> \o name \o <<"{">> \o key.val \o <<"}", ")">>
                ELSE <<"$", "(">> \o name \o <<")">>)

handle_symbol(req, symbol) ==
    CASE symbol.type = "Function" -> resolve_fn(req, symbol.name, symbol.args)
      [] symbol.type = "Text" -> Str(unwrap_or_default(symbol.text))
      [] symbol.type = "Variable" ->
            resolve_var(req, symbol.name, symbol.key, symbol.default)

RECURSIVE Joined(_)
Joined(strs) == IF strs = <<>> THEN <<>> ELSE Head(strs) \o Joined(Tail(strs))

\* result.push_str(evalue.as_str()) for every symbol
push_strs(evalues) ==
    IF \E i \in DOMAIN evalues : evalues[i].t = "panic"
    THEN Panic("index out of bounds")
    ELSE Returns(Joined([i \in DOMAIN evalues |-> as_str(evalues[i])]))

evaluate(req, tokens) ==
    IF ~tokens.ok THEN Panic("unwrap")
    ELSE push_strs([i \in DOMAIN tokens.val |-> handle_symbol(req, tokens.val[i])])

process_symbols(req, input_str) == evaluate(req, tokenize_symbols(input_str))

(***************************************************************************)
(* vars.rs                                                                 *)
(***************************************************************************)
\* parse_literal, or escaped_dollar: "\$" and a literal
vars_parse_text(s) ==
    alt(take_while1(SplitAt(s, Till(s, {"\\", "$"}))),
        IF Len(s) >= 2 /\ s[1] = "\\" /\ s[2] = "$"
        THEN take_while1(SplitAt(Drop(s, 2), Till(Drop(s, 2), {"\\", "$"})))
        ELSE PErr)

\* esi_variable_name or esi_function_name, between "$(" and ")"
dollar_tag(r) ==
    alt(terminated(take_while1(SplitAt(r, Span(r, Upper))), ")"),
        terminated(take_while1(SplitAt(r, Span(r, Lower))), ")"))

\* parse_var, or parse_function
parse_dollar_tag(s) ==
    IF Len(s) >= 2 /\ s[1] = "$" /\ s[2] = "(" THEN dollar_tag(Drop(s, 2))
    ELSE PErr

\* the text of a query string
QueryText(chunks) == [i \in DOMAIN chunks |-> chunks[i].text]

lookup_variable(var_name, req) ==
    CASE var_name = <<"HTTP_HOST">> -> unwrap_or_default(req.url.host)
      [] var_name = <<"QUERY_STRING">> ->
            IF req.url.query.some THEN QueryText(req.url.query.val) ELSE <<>>
      [] OTHER -> <<"$", "(">> \o var_name \o <<")">>

looked_up(r, req) ==
    IF r.ok THEN POk(r.rest, lookup_variable(r.val, req)) ELSE PErr

\* many_till(alt((parse_text, parse_dollar_tag)), eof)
RECURSIVE parse_vars_from(_, _, _)
many_till(parsed, req, r) ==
    IF r.ok THEN parse_vars_from(r.rest, parsed \o r.val, req) ELSE PErr

parse_vars_from(i, parsed, req) ==
    IF i = <<>> THEN POk(i, parsed)
    ELSE many_till(parsed, req,
                   alt(vars_parse_text(i), looked_up(parse_dollar_tag(i), req)))

parse_vars(input_str, req) == parse_vars_from(input_str, <<>>, req)

ok_or_input(r, input_str) == IF r.ok THEN Ok(r.val) ELSE Ok(input_str)

resolve_vars(input_str, req) == ok_or_input(parse_vars(input_str, req), input_str)

\* a request: its URL, its headers and the address of the client
QueryChunks ==
    {[text |-> "k=v", pair |-> Some([k |-> <<"k">>, v |-> <<"v">>])],
     [text |-> "k=", pair |-> Some([k |-> <<"k">>, v |-> <<>>])]}
CookieChunks == QueryChunks \cup {[text |-> "junk", pair |-> None]}
HeaderNames == {"Accept-Language", "Host", "Referer", "User-Agent", "Cookie"}

SomeRequest ==
    [url |-> [host |-> Some(<<"h">>), path |-> <<"/">>, query |-> None],
     method |-> <<"GET">>,
     client_ip |-> Some(<<"10.0.0.1">>),
     headers |-> [n \in HeaderNames |->
                    CASE n = "Host" -> Some(<<"h">>)
                      [] n = "Cookie" -> Some(<<[text |-> "k=v", pair |-> Some([k |-> <<"k">>, v |-> <<"v">>])]>>)
                      [] OTHER -> None]]

TextChars == Lower \cup {"V", "HTTP_HOST"} \cup
             {"$", "(", ")", "'", ",", "{", "}", "|", " ", "\\"}

TextCalls ==
    {[fn |-> f, req |-> SomeRequest, input |-> s] :
        f \in {"process_symbols", "resolve_vars"}, s \in UpTo(TextChars, MaxText)}

CallProcessSymbols ==
    /\ call.fn = "process_symbols"
    /\ returned = NotReturned
    /\ returned' = process_symbols(call.req, call.input)
    /\ UNCHANGED <<processor, call>>

CallResolveVars ==
    /\ call.fn = "resolve_vars"
    /\ returned = NotReturned
    /\ returned' = Returns(resolve_vars(call.input, call.req))
    /\ UNCHANGED <<processor, call>>

\* a header is missing, present and empty, or present with a value
HeaderValues == {None, Some(<<>>), Some(<<"v">>)}
Requests ==
    {[url |-> [host |-> Some(<<"h">>), path |-> <<"/">>, query |-> q],
      method |-> <<"GET">>,
      client_ip |-> ip,
      headers |-> [n \in HeaderNames |-> IF n = "Cookie" THEN c ELSE plain[n]]] :
        q \in {None} \cup {Some(x) : x \in UpTo(QueryChunks, 1)},
        c \in {None} \cup {Some(x) : x \in UpTo(CookieChunks, 1)},
        ip \in {None, Some(<<"10.0.0.1">>)},
        plain \in [HeaderNames \ {"Cookie"} -> HeaderValues]}

\* the default clause of a variable: none, a text, another variable
Defaults ==
    {None, Some(SymbolText(<<"d">>)),
     Some(SymbolVariable(<<"HTTP_REFERER">>, None, None))}

VarCall(r, n, k, d) ==
    [fn |-> "resolve_var", req |-> r, name |-> <<n>>, key |-> k, default |-> d]

CallResolveVar ==
    /\ call.fn = "resolve_var"
    /\ returned = NotReturned
    /\ returned' = Returns(resolve_var(call.req, call.name, call.key, call.default))
    /\ UNCHANGED <<processor, call>>


CallInit ==
    /\ pc = "parse"
    /\ input = <<>>
    /\ events = <<>>
    /\ frames = <<Frame("root")>>
    /\ root = <<>>
    /\ depth = 0
    /\ current_arm = "None"
    /\ elements = <<>>
    /\ output = <<>>
    /\ dispatched = <<>>
    /\ responses = <<>>
    /\ arrivals = <<>>
    /\ result = Running
    /\ cur = NoCur
    /\ faults = 0
    /\ \/ call \in BuildCalls
       \/ call \in TextCalls
       \/ \E r \in Requests, n \in Upper, k \in {None, Some(<<"k">>)}, d \in Defaults :
              call = VarCall(r, n, k, d)
    /\ returned = NotReturned
    /\ hook = NoHook

CallNext ==
    \/ CallBuildFragmentRequest
    \/ CallProcessSymbols
    \/ CallResolveVars
    \/ CallResolveVar

CallSpec == CallInit /\ [][CallNext]_vars

(***************************************************************************)
(* C23: for every src or alt value build_fragment_request either returns   *)
(* the error InvalidRequestUrl, or returns a request whose Host header is   *)
(* the host of its URL and whose URL is the template's with the path and   *)
(* the query of the un-escaped value when that value begins with '/', and  *)
(* the parsed absolute URL otherwise; it ends in no other way.             *)
(***************************************************************************)
C23_TwoOutcomes ==
    (call.fn = "build_fragment_request" /\ returned # NotReturned) =>
        /\ returned.kind = "value"
        /\ \/ ~returned.val.ok /\ returned.val.err.kind = "InvalidRequestUrl"
           \/ /\ returned.val.ok
              /\ returned.val.val.url.host = Some(returned.val.val.host_header)
              /\ LET v == IF call.is_escaped THEN unescape(call.url).val
                          ELSE call.url
                     u == returned.val.val.url
                 IN  IF starts_with_slash(v)
                     THEN /\ u.scheme = call.request.url.scheme
                          /\ u.host = call.request.url.host
                          /\ u.path = UrlParse(<<"http://0.0.0.0">> \o v).val.path
                          /\ u.query = UrlParse(<<"http://0.0.0.0">> \o v).val.query
                     ELSE u = UrlParse(v).val

\* the same with the values that name no host left out
C23_TwoOutcomesWithHost ==
    (call.fn = "build_fragment_request"
        /\ \A i \in DOMAIN call.url : call.url[i] # "mailto:a") => C23_TwoOutcomes

(***************************************************************************)
(* C22: evaluating an attribute string (process_symbols, resolve_vars)     *)
(* always returns a string, with no abort and no error, and when some part *)
(* of the string cannot be parsed as an expression the string returned is  *)
(* the attribute string itself, unchanged.                                 *)
(***************************************************************************)
\* some part of the string of the call is left unparsed
Unparsed ==
    \/ /\ call.fn = "process_symbols"
       /\ ~tokenize_symbols(call.input).ok \/ tokenize_symbols(call.input).rest # <<>>
    \/ /\ call.fn = "resolve_vars"
       /\ ~parse_vars(call.input, call.req).ok

C22_NeverFailsNorLoses ==
    (call.fn \in {"process_symbols", "resolve_vars"} /\ returned # NotReturned) =>
        /\ returned.kind = "value"
        /\ call.fn = "resolve_vars" => returned.val.ok
        /\ Unparsed =>
              call.input = IF call.fn = "resolve_vars" THEN returned.val.val
                           ELSE returned.val

\* the same of resolve_vars alone
C22_ResolveVars == call.fn = "resolve_vars" => C22_NeverFailsNorLoses

(***************************************************************************)
(* C21: when a recognised variable has a default clause and the data it    *)
(* stands for is absent or empty (a header missing or present with an      *)
(* empty value, a cookie or a query parameter missing or present with an   *)
(* empty value, no cookies, no query string), resolving it gives the value *)
(* of the default expression.                                              *)
(***************************************************************************)
Recognised == {<<n>> : n \in Upper \ {"V"}}

\* the header is missing or its value is empty
NoHeader(req, n) == ~req.headers[n].some \/ req.headers[n].val = <<>>

\* no pair of the chunks is named key, or the first that is has no value;
\* without a key, there is no pair at all
NoPair(chunks, key) ==
    IF key.some
    THEN ~Find(Pairs(chunks), key.val).some \/ Find(Pairs(chunks), key.val).val = <<>>
    ELSE Pairs(chunks) = <<>>

\* the data the variable of the call stands for is absent or empty
PrimaryEmpty ==
    CASE call.name = <<"HTTP_ACCEPT_LANGUAGE">> -> NoHeader(call.req, "Accept-Language")
      [] call.name = <<"HTTP_HOST">> -> NoHeader(call.req, "Host")
      [] call.name = <<"HTTP_REFERER">> -> NoHeader(call.req, "Referer")
      [] call.name = <<"HTTP_USER_AGENT">> -> NoHeader(call.req, "User-Agent")
      [] call.name = <<"HTTP_COOKIE">> ->
            NoPair(IF call.req.headers["Cookie"].some
                   THEN call.req.headers["Cookie"].val ELSE <<>>, call.key)
      [] call.name = <<"QUERY_STRING">> ->
            NoPair(IF call.req.url.query.some THEN call.req.url.query.val ELSE <<>>,
                   call.key)
      [] call.name = <<"REMOTE_ADDR">> -> ~call.req.client_ip.some
      [] call.name = <<"REQUEST_METHOD">> -> call.req.method = <<>>
      [] call.name = <<"REQUEST_PATH">> -> call.req.url.path = <<>>

C21_DefaultWhenEmpty ==
    (/\ call.fn = "resolve_var"
     /\ returned # NotReturned
     /\ call.name \in Recognised
     /\ call.default.some
     /\ PrimaryEmpty)
        => returned = Returns(handle_symbol(call.req, call.default.val))

\* the same of QUERY_STRING alone, and of the data that is absent
C21_QueryString ==
    (call.fn = "resolve_var" /\ call.name = <<"QUERY_STRING">>) => C21_DefaultWhenEmpty
C21_Absent ==
    (/\ call.fn = "resolve_var"
     /\ call.name # <<"REMOTE_ADDR">>
     /\ \A n \in HeaderNames : call.req.headers[n] # Some(<<>>)
     /\ call.name = <<"HTTP_COOKIE">> =>
            /\ call.key.some
            /\ ~Find(Pairs(IF call.req.headers["Cookie"].some
                           THEN call.req.headers["Cookie"].val ELSE <<>>),
                     call.key.val).some)
        => C21_DefaultWhenEmpty


(***************************************************************************)
(* The structural tags open at a place of the document                     *)
(***************************************************************************)
\* the stack st without its last entry of S and everything above it
CutAt(st, S) ==
    IF \A j \in 1..Len(st) : st[j] \notin S THEN st
    ELSE SubSeq(st, 1, (CHOOSE j \in 1..Len(st) :
                          /\ st[j] \in S
                          /\ \A i \in (j + 1)..Len(st) : st[i] \notin S) - 1)
\* the stack of open try, attempt and except tags after token k, which is
\* outside remove and outside an open include: an open tag enters its
\* element, a closing try leaves the innermost try, a closing attempt or
\* except leaves the innermost arm
Entered(st, k) ==
    CASE IsExactly(input[k], "Start", "try") -> Append(st, "try")
      [] IsExactly(input[k], "Start", "attempt") -> Append(st, "attempt")
      [] IsExactly(input[k], "Start", "except") -> Append(st, "except")
      [] IsExactly(input[k], "End", "try") -> CutAt(st, {"try"})
      [] IsExactly(input[k], "End", "attempt") \/ IsExactly(input[k], "End", "except") ->
           CutAt(st, {"attempt", "except"})
      [] OTHER -> st
\* the stack of open try, attempt and except tags after the first k tokens
RECURSIVE Enclosing(_)
Enclosing(k) ==
    IF k = 0 THEN <<>>
    ELSE IF Swallowed(k) THEN Enclosing(k - 1)
    ELSE Entered(Enclosing(k - 1), k)
\* token k is read directly inside a try: the innermost open element is a try
InTry(st) == st # <<>> /\ st[Len(st)] = "try"
DirectlyInTry(k) == InTry(Enclosing(k - 1))
IsArmStart(tok) == IsExactly(tok, "Start", "attempt") \/ IsExactly(tok, "Start", "except")

Counted(d, k) ==
    CASE IsExactly(input[k], "Start", "try") -> d + 1
      [] IsExactly(input[k], "End", "try") /\ d >= 1 -> d - 1
      [] OTHER -> d
RECURSIVE DepthAfter(_)
DepthAfter(k) ==
    IF k = 0 THEN 0
    ELSE IF Swallowed(k) THEN DepthAfter(k - 1)
    ELSE Counted(DepthAfter(k - 1), k)
IsStructureEnd(tok) ==
    IsExactly(tok, "End", "try") \/ IsExactly(tok, "End", "attempt")
      \/ IsExactly(tok, "End", "except")
\* parse_tags returned UnexpectedClosingTag for token k, the last one read
ClosingTagError(k) ==
    /\ Done
    /\ result = Err(UnexpectedClosingTag(k))
    /\ Len(input) = k

(***************************************************************************)
(* C34: a closing try, attempt or except tag read (outside remove and      *)
(* outside an open include) when depth is 0, and a closing remove tag read *)
(* when no remove is open, make parse_tags return UnexpectedClosingTag for *)
(* that tag at once.  The depth counter is the number of open try tags     *)
(* read less the number of closing try tags read at depth 1 or more:       *)
(* nothing else decrements it, and it is never below 0.                    *)
(***************************************************************************)
C34_ClosingAtDepth0 ==
    /\ depth >= 0
    /\ depth = DepthAfter(Len(input))
    /\ \A k \in 1..Len(input) :
          /\ (IsStructureEnd(input[k]) /\ ~Swallowed(k) /\ DepthAfter(k - 1) = 0) =>
                ClosingTagError(k)
          /\ (IsExactly(input[k], "End", "remove") /\ ~InRemove(k)) =>
                ClosingTagError(k)

\* a closing attempt tag was read at depth 0, after a try had been opened
\* and closed
C34_Witness ==
    /\ ClosingTagError(Len(input))
    /\ IsExactly(input[Len(input)], "End", "attempt")
    /\ \E i, j \in 1..Len(input) :
          /\ i < j
          /\ IsExactly(input[i], "Start", "try")
          /\ IsExactly(input[j], "End", "try")


\* parse_tags has returned Ok
ParsedOk == pc = "poll"
\* token k is passthrough or an include, outside remove and outside an open
\* include
IsContent(k) ==
    /\ input[k].kind = "Text" \/ (IsInclude(input[k]) /\ input[k].attrs.src.some)
    /\ ~Swallowed(k)
\* the callback has been invoked with the event of token k, directly or
\* inside a Try event
Delivered(k) == OccursIn(events, k) >= 1

(***************************************************************************)
(* C38: parse_tags returns Ok only when the reader has reached end of      *)
(* input with every opened try closed (depth 0).  Whenever it has returned *)
(* Ok, the last event read is the end of input, the depth is 0, and every  *)
(* include and passthrough of the document outside remove and outside an   *)
(* open-form include has been delivered to the callback, directly or       *)
(* inside a Try event.                                                     *)
(***************************************************************************)
C38_OkOnlyAtEnd ==
    ParsedOk =>
        /\ input[Len(input)].kind = "Eof"
        /\ depth = 0
        /\ \A k \in 1..Len(input) : IsContent(k) => Delivered(k)


(***************************************************************************)
(* The parser run to its end: the documents of ParserSpec, with a reader   *)
(* that goes on returning the end of input when it is read again, as       *)
(* quick_xml does.  The loop of do_parse takes its next step as long as    *)
(* parse_tags has not returned.                                            *)
(***************************************************************************)
\* the reader has reported the end of input
AtEnd == input # <<>> /\ input[Len(input)].kind = "Eof"

\* an event of the document is read, the end of input the first time
ReadDocument ==
    /\ pc = "parse"
    /\ ~AtEnd
    /\ \E tok \in ParserOffered : Read(tok)

\* the reader is read again after the end of input: it returns Eof again,
\* which do_parse handles like any event
ReadAtEnd ==
    /\ pc = "parse"
    /\ AtEnd
    /\ LET r == do_parse(input[Len(input)]) IN
          /\ frames' = r.frames
          /\ root' = r.root
          /\ depth' = r.depth
          /\ current_arm' = r.current_arm
          /\ pc' = IF r.effect.kind = "returned" THEN "poll" ELSE pc
    /\ UNCHANGED <<input, events, elements, output, dispatched, responses,
                   arrivals, result, cur, faults, call, returned, hook>>

FairParserNext ==
    \/ ReadDocument
    \/ ReadAtEnd

FairParserSpec ==
    ParserInit /\ [][FairParserNext]_vars /\ WF_vars(ReadAtEnd)

(***************************************************************************)
(* C36: parse_tags terminates on every finite document: once the reader    *)
(* has reported the end of input, parse_tags returns after finitely many   *)
(* steps, every active level of do_parse having returned, also when a      *)
(* remove tag or an open-form include has been opened and never closed.    *)
(***************************************************************************)
C36_ParseTerminates == AtEnd ~> (pc # "parse")


(***************************************************************************)
(* The processor on the balanced documents with nested try blocks of       *)
(* NestedSpec: the queue is drained after parsing.  Every call of the      *)
(* dispatcher is answered with a handle; the backends answer any status.   *)
(* No include of these documents has an alt, so no try is pushed back and  *)
(* no task that has failed is polled again.                                *)
(***************************************************************************)
NestedRunNext ==
    \/ NestedEvent
    \/ \E h \in 1..Len(responses) : Complete(h)
    \/ PollRaw
    \/ PollInclude
    \/ PollTry
    \/ PollEnd
    \/ PollTasksRaw
    \/ PollTasksInclude
    \/ PollTasksEnd

NestedRunSpec == ParserInit /\ [][NestedRunNext]_vars

\* the Try events that stand directly in a vector of events
TriesIn(evs) == { evs[k] : k \in { j \in 1..Len(evs) : evs[j].type = "Try" } }
\* no request has been answered with a non-success status
NoFailure ==
    \A h \in 1..Len(responses) :
        responses[h].kind = "http" => is_success(responses[h].status)
\* what the event e of an arm gives when every request succeeds
BytesOf(e) ==
    CASE e.type = "XML" -> XmlBytes(e.pos)
      [] e.type = "Include" -> BodyOf(e.src.url)
      [] OTHER -> <<>>

(***************************************************************************)
(* C31: a try nested inside an arm of a top-level try is resolved by the   *)
(* rules of a try.  Once the top-level try has been delivered, every       *)
(* include of the arms of the nested try has been dispatched.  When        *)
(* processing has returned Ok and no request has failed, the attempt arm   *)
(* is the chosen branch at both levels: every passthrough event and every  *)
(* include of the attempt arm of a try nested in the attempt arm has its   *)
(* bytes in the output, which is in document order.  An include of the     *)
(* nested try is never the error processing ends with when the except arm  *)
(* of the top-level try succeeds.                                          *)
(***************************************************************************)
C31_NestedTryResolved ==
    \A t \in TryEvents :
        /\ \A n \in TriesIn(t.attempt_events) \cup TriesIn(t.except_events) :
              \A e \in ArmIncludes(n) : DispatchedAt(e.pos) # {}
        /\ \A n \in TriesIn(t.attempt_events) :
              /\ (Done /\ result.ok /\ NoFailure) =>
                    /\ \A k \in 1..Len(n.attempt_events) :
                          OutputOf({n.attempt_events[k].pos}) = BytesOf(n.attempt_events[k])
                    /\ \A i, j \in 1..Len(output) :
                          i < j => output[i].pos <= output[j].pos
              /\ ExceptSucceeds(t) => ~FailedAt(PositionsOf(n.attempt_events)
                                                \cup PositionsOf(n.except_events))


\* a handle has been awaited
SomeAwaited == \E h \in 1..Len(responses) : Awaited(h)
\* the calls of the dispatcher made by this step
NewCalls == (Len(dispatched) + 1)..Len(dispatched')
\* the includes collected in the arms of a try that is not closed yet
OpenArmIncludes ==
    UNION { IncludesOf(frames[i].attempt_events) \cup IncludesOf(frames[i].except_events) :
              i \in 1..Len(frames) }

(***************************************************************************)
(* C35: the primary request of every include, at the root and in both arms *)
(* of every top-level try, is dispatched during parsing and before the     *)
(* first handle is awaited.  As long as processing has not ended with an   *)
(* error of the parsing phase, every include delivered to the callback has *)
(* been dispatched, and the includes of a try that is not closed yet have  *)
(* not; when a handle has been awaited the document has been read to its   *)
(* end and every include tag of it has been dispatched.  The primary       *)
(* requests are dispatched in document order, the attempt arm of a try     *)
(* before its except arm.  A step dispatches a primary request only while  *)
(* parsing and with no handle awaited: every later dispatch is an alt.     *)
(***************************************************************************)
C35_DispatchWhileParsing ==
    /\ [](/\ (~Done \/ result.ok \/ SomeAwaited) =>
                \A e \in AllIncludes : Calls(e.src.url) # {}
          /\ \A e \in OpenArmIncludes : Calls(e.src.url) = {}
          /\ SomeAwaited =>
                /\ AtEnd
                /\ \A k \in 1..Len(input) :
                      IsIncludeTag(input[k]) => Calls(Url(k, "src")) # {}
          /\ \A h, g \in 1..Len(dispatched) :
                (/\ h < g
                 /\ dispatched[h].request.attr = "src"
                 /\ dispatched[g].request.attr = "src") =>
                    dispatched[h].request.pos < dispatched[g].request.pos)
    /\ [][\A h \in NewCalls :
             dispatched'[h].request.attr = "src" => (pc = "parse" /\ ~SomeAwaited)]_vars

\* processing has ended for a try with an include in each arm, after the
\* alt of the include of the attempt arm was dispatched
C35_Witness ==
    /\ Done
    /\ \E t \in TryEvents :
          /\ IncludesOf(t.attempt_events) # {}
          /\ IncludesOf(t.except_events) # {}
          /\ \E e \in IncludesOf(t.attempt_events) :
                e.alt.some /\ Calls(e.alt.val.url) # {}


\* the alt of the include cannot be built into a request
AltInvalid(e) == e.alt.some /\ ~e.alt.val.valid

C39_SuccessReached ==
    \E e \in RootIncludes :
        /\ AltInvalid(e) /\ GotSuccess(e.src.url)
        /\ Done /\ result.ok


\* processing ended with UnexpectedStatus for a request of the positions ps
StatusFailureAt(ps) == FailedAt(ps) /\ result.err.kind = "UnexpectedStatus"
\* the passthrough events of a vector, as bytes
RawContent(evs) ==
    LET IsXml(e) == e.type = "XML" IN Processed(SelectSeq(evs, IsXml))

(***************************************************************************)
(* C40: a try whose except arm is absent or contains no include never ends *)
(* the processing with UnexpectedStatus.  When its attempt arm fails on a  *)
(* status (a non-success response, no alt left, continue_on_error false),  *)
(* none of the bytes of the attempt arm is written, the try, once          *)
(* resolved, has written the raw content of the except arm (nothing if the *)
(* arm is absent), no request of the try is the error processing ends      *)
(* with, and when processing returns Ok the output is that of the          *)
(* document with the except arm in the place of the try.                   *)
(***************************************************************************)
C40_RawExcept ==
    \A t \in TryEvents :
        IncludesOf(t.except_events) = {} =>
            /\ ~StatusFailureAt(PositionsOf(t.attempt_events))
            /\ AttemptFails(t) =>
                  /\ AttemptOutput(t) = <<>>
                  /\ ~TryPending(t) => TryOutput(t) = RawContent(t.except_events)
                  /\ Done => ~TryPending(t)
                  /\ ~FailedAt(PositionsOf(t.attempt_events))
                  /\ (Done /\ result.ok) => output = Expected(events)

\* processing returned Ok: the attempt arm of a try had bytes buffered and
\* failed on a status, the passthrough of the except arm was written, and
\* so was the passthrough that follows the try
C40_Witness ==
    \E t \in TryEvents :
        /\ IncludesOf(t.except_events) = {} /\ t.except_events # <<>>
        /\ AttemptFails(t)
        /\ t.attempt_events[1].type = "XML"
        /\ Done /\ result.ok
        /\ ExceptOutput(t) # <<>>
        /\ \E i \in 1..Len(output) : output[i].pos > t.pos


(***************************************************************************)
(* The processor called with a process_fragment_response: a hook that      *)
(* answers 404 with a 200 response, one that answers a success with 500,   *)
(* and one that returns an error for every non-success response.           *)
(***************************************************************************)
Rescue == [s \in Statuses |-> IF s = 404 THEN Ok(200) ELSE Ok(s)]
Degrade == [s \in Statuses |-> IF is_success(s) THEN Ok(500) ELSE Ok(s)]
Refuse == [s \in Statuses |-> IF is_success(s) THEN Ok(s) ELSE Err("refused")]
Hooks == {Some(Rescue), Some(Degrade), Some(Refuse)}

HookInit ==
    /\ pc = "parse"
    /\ input = <<>>
    /\ events = <<>>
    /\ frames = <<Frame("root")>>
    /\ root = <<>>
    /\ depth = 0
    /\ current_arm = "None"
    /\ elements = <<>>
    /\ output = <<>>
    /\ dispatched = <<>>
    /\ responses = <<>>
    /\ arrivals = <<>>
    /\ result = Running
    /\ cur = NoCur
    /\ faults = 0
    /\ call = NoCall
    /\ returned = NotReturned
    /\ hook \in Hooks

HookSpec == HookInit /\ [][Next]_vars

\* the backend answered call h with a non-success response that the hook
\* turned into a success one
Rescued(h) ==
    /\ hook.some
    /\ responses[h].kind = "http"
    /\ ~is_success(responses[h].status)
    /\ hook.val[responses[h].status].ok
    /\ is_success(hook.val[responses[h].status].val)
\* the buffers of the branch tasks of the try at position p
BuffersAt(p) == { b.task.output : b \in { c \in BranchTasks : c.pos = p } }
\* the bytes bs stand in the sequence out
Within(bs, out) == \E i \in 1..Len(out) : out[i] = bs[1]

(***************************************************************************)
(* C32: the success test of an include is applied to the response the hook *)
(* returned, not to the response of the backend.  When the hook turns a    *)
(* non-success response into a success one, no alt is dispatched for that  *)
(* request, no failure is recorded (processing does not end with an error  *)
(* of the include and no branch task is Failed for the request), and the   *)
(* body is emitted at the place of the include: for a root include in the  *)
(* output, for an include of an arm of a try in the buffer of its task     *)
(* while the try is pending.  The output stays in document order.          *)
(***************************************************************************)
C32_HookDecidesSuccess ==
    \A h \in 1..Len(dispatched) :
        Rescued(h) =>
            LET u == dispatched[h].request IN
            /\ u.attr = "src" => Calls(Url(u.pos, "alt")) = {}
            /\ ~FailedAt({u.pos})
            /\ \A b \in BranchTasks :
                  b.task.status.state = "Failed" => b.task.status.request # u
            /\ (\E e \in RootIncludes : e.pos = u.pos) =>
                  OutputOf({u.pos}) = BodyOf(u)
            /\ \A t \in TryEvents :
                  (u.pos \in PositionsOf(t.attempt_events) \cup PositionsOf(t.except_events)
                   /\ TryPending(t)) =>
                      \E buffer \in BuffersAt(t.pos) : Within(BodyOf(u), buffer)
            /\ \A i, j \in 1..Len(output) : i < j => output[i].pos <= output[j].pos

\* processing returned Ok with the body of a root include that has an alt
\* and of an include of the attempt arm of a try, both answered 404 by
\* their backends
C32_Witness ==
    /\ Done /\ result.ok
    /\ \E h, g \in 1..Len(dispatched) :
          /\ Rescued(h) /\ Rescued(g)
          /\ \E e \in RootIncludes :
                e.pos = dispatched[h].request.pos /\ e.alt.some
          /\ \E t \in TryEvents :
                dispatched[g].request.pos \in PositionsOf(t.attempt_events)
          /\ Within(BodyOf(dispatched[h].request), output)
          /\ Within(BodyOf(dispatched[g].request), output)


(***************************************************************************)
(* The processor run to its end: the program takes its next step whenever  *)
(* it can, and every request that is in flight is answered.  Every URL     *)
(* parses, the dispatcher answers every call with a handle and wait()      *)
(* returns a response, of any status, for every handle.                    *)
(***************************************************************************)
\* a step of the drain loop
Drain ==
    \/ PollRaw
    \/ PollInclude
    \/ PollTry
    \/ PollEnd
    \/ PollTasksFailed
    \/ PollTasksRaw
    \/ PollTasksInclude
    \/ PollTasksEnd
\* a backend answers
Answer == \E h \in 1..Len(responses) : Complete(h)

FairSpec == ParserInit /\ [][Next]_vars /\ WF_vars(Drain) /\ WF_vars(Answer)

\* the work left in the queue of a task: one per element, and one more for
\* an include that has an alt
RECURSIVE TaskWork(_)
TaskWork(queue) ==
    IF queue = <<>> THEN 0
    ELSE 1 + (IF Head(queue).type = "Include" /\ Head(queue).fragment.alt.some
              THEN 1 ELSE 0)
         + TaskWork(Tail(queue))
TryWork(el) == 1 + TaskWork(el.attempt_task.queue) + TaskWork(el.except_task.queue)
RECURSIVE QueueWork(_)
QueueWork(queue) ==
    IF queue = <<>> THEN 0
    ELSE (IF Head(queue).type = "Try" THEN TryWork(Head(queue))
          ELSE TaskWork(<<Head(queue)>>))
         + QueueWork(Tail(queue))
\* the work left in the document: the queue and the try being polled
Work == QueueWork(elements) + (IF cur.type = "Try" THEN TryWork(cur) ELSE 0)

\* this step pops the Try element at the front of the queue
TryPopped == pc = "poll" /\ pc' = "attempt"
\* this step pushes the try being polled back to the front of the queue
TryPushedBack == PassEnds /\ Len(elements') = Len(elements) + 1
\* the alts dispatched with a handle that has not been awaited
PendingAlts == { h \in 1..Len(dispatched) : AltPending(h) }
AwaitedHandles == { h \in 1..Len(dispatched) : Awaited(h) }

(***************************************************************************)
(* C37: after parsing has ended, every handle that is awaited being        *)
(* answered, process_document returns after finitely many polls.  No step  *)
(* of the drain loop adds work (an element, or the alt of an include), and *)
(* every step but the pop of a Try element, the passage from its attempt   *)
(* task to its except task and its push back removes an element for good   *)
(* or replaces a failed include by its alt.  The element of an alt has no  *)
(* alt.  A Try element is pushed back only with the handle of an alt       *)
(* dispatched inside it waiting at the front of one of its tasks, so at    *)
(* most once per such alt.  Each handle is awaited at most once: the       *)
(* handles awaited are handles the dispatcher gave.                        *)
(***************************************************************************)
C37_DrainTerminates ==
    /\ (pc # "parse") ~> Done
    /\ [](/\ \A f \in QueuedFragments : f.request.attr = "alt" => ~f.alt.some
          /\ \A h \in AwaitedHandles : dispatched[h].answer = "some"
          /\ Cardinality(AwaitedHandles) <= Len(dispatched))
    /\ [][pc # "parse" =>
            /\ Work' <= Work
            /\ Work' = Work =>
                  \/ TryPopped
                  \/ pc = "attempt" /\ pc' = "except"
                  \/ TryPushedBack
                  \/ elements' = elements /\ cur' = cur
            /\ TryPushedBack =>
                  \E h \in PendingAlts' :
                      \/ HeadWaitsFor(Head(elements').attempt_task.queue, h)
                      \/ HeadWaitsFor(Head(elements').except_task.queue, h)]_vars

\* processing has returned after a try was pushed back and polled again: the
\* alt of an include of its attempt arm was dispatched and answered
C37_Witness ==
    /\ Done
    /\ \E t \in TryEvents : \E e \in IncludesOf(t.attempt_events) :
          /\ e.alt.some
          /\ \E h \in Calls(e.alt.val.url) : Awaited(h)

====
